---- MODULE Spec2Model ----
(***************************************************************************)
(* Model of projectdash's synchronisation and write-through mutation       *)
(* engine: DataManager (src/projectdash/data.py) over the SQLite-backed    *)
(* Database (src/projectdash/database.py) and the LinearClient remote      *)
(* boundary (src/projectdash/linear.py).                                   *)
(*                                                                         *)
(* Python values are encoded as follows.  None of an Optional[str] is the  *)
(* string None; a missing User / raw "state" object is the record NoUser / *)
(* NoState; a null estimate is NoEstimate.  Formatted strings (messages,   *)
(* diagnostics) are sequences of their parts, so that "contains" and       *)
(* "starts with" can be stated.  A dict is a function whose DOMAIN is its  *)
(* key set.  A table of the store is the sequence of its rows in rowid     *)
(* order; INSERT OR REPLACE deletes the row with the same key and appends. *)
(* Remote responses and store failures are inputs of the actions.          *)
(***************************************************************************)
EXTENDS Integers, Sequences, FiniteSets, TLC

VARIABLES
    \* DataManager fields (data.py:12-27)
    users, projects, issues, workflow_states_by_team,
    sync_in_progress, last_sync_at, last_sync_error, last_sync_result,
    sync_diagnostics, last_sync_counts, sync_history,
    \* configuration and credentials
    linear_status_mappings, api_key, env_api_key,
    \* Local Store tables (database.py:13-85)
    db_users, db_projects, db_issues, db_workflow_states, db_sync_history, db_seq,
    \* wall clock read by datetime.now()
    clock,
    \* the caller: Idle, or the observation of the call that has just
    \* returned to it (arguments, result, calls made) and that it has not
    \* consumed yet
    last,
    \* number of calls the caller has made
    calls_made,
    \* number of store/remote faults still to be injected (history runs)
    faults_left

vars == <<users, projects, issues, workflow_states_by_team,
          sync_in_progress, last_sync_at, last_sync_error, last_sync_result,
          sync_diagnostics, last_sync_counts, sync_history,
          linear_status_mappings, api_key, env_api_key,
          db_users, db_projects, db_issues, db_workflow_states, db_sync_history, db_seq,
          clock, last, calls_made, faults_left>>

----------------------------------------------------------------------------
(* Bounds of the model *)

\* calls of the caller in a mutation run
MaxCalls == 2
\* sync attempts in a history run
MaxHistorySyncs == 22
\* injected faults in a history run
MaxFaults == 1
\* the max_points argument passed to cycle_issue_points
PointsMaxArg == 2

(* Program constants *)

\* append_sync_history(max_entries=20), get_sync_history(limit=20)
MaxEntries == 20
HistoryLimit == 20

----------------------------------------------------------------------------
(* Encoding of Python values *)

None == "None"
NoEstimate == -1
NoUser == [id |-> None, name |-> None, avatar_url |-> None]
NoState == [id |-> None, name |-> None]
NoError == <<>>

\* truthiness of an Optional[str]
Truthy(x) == x # None /\ x # ""

\* str(n) / f"{n}" for the small integers that get formatted
Str(n) == IF n \in 0..20
          THEN <<"0","1","2","3","4","5","6","7","8","9","10",
                 "11","12","13","14","15","16","17","18","19","20">>[n + 1]
          ELSE "many"

\* str.strip().casefold() over the strings of the model
casefold(s) ==
    CASE s = "Todo"        -> "todo"
      [] s = "In Progress" -> "in progress"
      [] s = "IN PROGRESS" -> "in progress"
      [] s = "Review"      -> "review"
      [] s = "Done"        -> "done"
      [] s = "Started"     -> "started"
      [] s = "STARTED"     -> "started"
      [] OTHER             -> s

EmptyDict == [k \in {} |-> <<>>]
EmptyCounts == [k \in {} |-> 0]

\* d[k] = v
DictSet(d, k, v) == [x \in (DOMAIN d) \cup {k} |-> IF x = k THEN v ELSE d[x]]

\* dict.get(k, default)
DictGet(d, k, default) == IF k \in DOMAIN d THEN d[k] ELSE default

Range(s) == {s[i] : i \in 1..Len(s)}

\* F applied to e: e gets the name F gives it, and is used under that name
With(e, F(_)) == F(e)

\* index of the first element satisfying Test, 0 when there is none
FirstIndex(s, Test(_)) ==
    IF \E i \in 1..Len(s) : Test(s[i])
    THEN CHOOSE i \in 1..Len(s) : Test(s[i]) /\ \A j \in 1..(i - 1) : ~Test(s[j])
    ELSE 0

----------------------------------------------------------------------------
(* Local Store: database.py *)

\* one INSERT OR REPLACE: the row with the same primary key is deleted and
\* the new row gets a fresh rowid
Replace(table, row) ==
    Append(SelectSeq(table, LAMBDA r : r.id # row.id), row)

RECURSIVE InsertOrReplace(_, _)
InsertOrReplace(table, rows) ==
    IF rows = <<>> THEN table
    ELSE InsertOrReplace(Replace(table, Head(rows)), Tail(rows))

\* the tuple save_issues binds for one issue (database.py:108-120)
IssueRow(i, project_id) ==
    [id |-> i.id, linear_id |-> i.linear_id, title |-> i.title,
     priority |-> i.priority, due_date |-> i.due_date,
     status |-> i.status, state_id |-> i.state_id, team_id |-> i.team_id,
     assignee_id |-> IF i.assignee # NoUser THEN i.assignee.id ELSE None,
     points |-> i.points,
     project_id |-> IF Truthy(i.project_id) THEN i.project_id ELSE project_id]

save_users(table, us) == InsertOrReplace(table, us)

save_projects(table, ps) == InsertOrReplace(table, ps)

save_issues(table, is, project_id) ==
    InsertOrReplace(table, [k \in 1..Len(is) |-> IssueRow(is[k], project_id)])

\* a write of the workflow states that keeps the rows already stored
save_workflow_states_keeping_rows(table, states) == InsertOrReplace(table, states)

save_workflow_states(table, states) == InsertOrReplace(<<>>, states)

get_users(table) == table

get_projects(table) == table

\* SELECT i.*, u.name, u.avatar_url FROM issues i LEFT JOIN users u ON
\* i.assignee_id = u.id.  The Issue is built without description and
\* created_at: they take their defaults, None and datetime.now()
\* (models.py:47-48).
IssueOfRow(row, utable, now) ==
    LET k == FirstIndex(utable, LAMBDA u : u.id = row.assignee_id)
        assignee == IF Truthy(row.assignee_id)
                    THEN [id |-> row.assignee_id,
                          name |-> IF k = 0 THEN None ELSE utable[k].name,
                          avatar_url |-> IF k = 0 THEN None ELSE utable[k].avatar_url]
                    ELSE NoUser
    IN [id |-> row.id, linear_id |-> row.linear_id, title |-> row.title,
        priority |-> row.priority, due_date |-> row.due_date,
        status |-> row.status, state_id |-> row.state_id, team_id |-> row.team_id,
        assignee |-> assignee, points |-> row.points, project_id |-> row.project_id,
        description |-> None, created_at |-> now]

get_issues(itable, utable, now) ==
    [k \in 1..Len(itable) |-> IssueOfRow(itable[k], utable, now)]

get_workflow_states(table) == table

\* append_sync_history with the DELETE of the older rows left out
append_sync_history_without_delete(table, seq, created_at, result, summary, diagnostics, max_entries) ==
    Append(table, [id |-> seq, created_at |-> created_at, result |-> result,
                   summary |-> summary, diagnostics |-> diagnostics])

\* INSERT the attempt, then DELETE all but the max_entries highest ids, in
\* one transaction
append_sync_history(table, seq, created_at, result, summary, diagnostics, max_entries) ==
    With(Append(table, [id |-> seq, created_at |-> created_at, result |-> result,
                        summary |-> summary, diagnostics |-> diagnostics]),
         LAMBDA inserted :
    With({row.id : row \in {row \in Range(inserted) :
              Cardinality({o \in Range(inserted) : o.id > row.id}) < max_entries}},
         LAMBDA keep :
            IF max_entries > 0
            THEN SelectSeq(inserted, LAMBDA r : r.id \in keep)
            ELSE inserted))

\* the rows in descending id order
RECURSIVE OrderByIdDesc(_)
OrderByIdDesc(rows) ==
    IF rows = {} THEN <<>>
    ELSE With(CHOOSE r \in rows : \A o \in rows : o.id <= r.id,
              LAMBDA top : <<top>> \o OrderByIdDesc(rows \ {top}))

\* SELECT ... ORDER BY id DESC LIMIT ?
get_sync_history(table, limit) ==
    With(OrderByIdDesc(Range(table)),
         LAMBDA ordered :
            SubSeq(ordered, 1, IF Len(ordered) < limit THEN Len(ordered) ELSE limit))

----------------------------------------------------------------------------
(* Status Mapping Resolver and remote error classification: data.py *)

\* a lookup that offers the states of every team
TeamStates_of_any_team(wsbt, issue) == DictGet(wsbt, "team-1", <<>>) \o DictGet(wsbt, "team-2", <<>>)

\* the workflow states cached for the issue's team (data.py:406)
TeamStates(wsbt, issue) ==
    DictGet(wsbt, IF Truthy(issue.team_id) THEN issue.team_id ELSE "", <<>>)

\* a resolver that falls back to the name of the target status when the
\* configured override matches no state of the team
_resolve_state_id_falling_back_to_name(mappings, wsbt, issue, status) ==
    LET team_states == TeamStates(wsbt, issue)
        configured_mapping == DictGet(mappings, casefold(status), None)
        byOverride == FirstIndex(team_states,
                        LAMBDA st : st.id = configured_mapping
                                    \/ casefold(st.name) = casefold(configured_mapping))
        byName == FirstIndex(team_states, LAMBDA st : casefold(st.name) = casefold(status))
    IN IF Truthy(configured_mapping) /\ byOverride # 0
       THEN [id |-> team_states[byOverride].id, warning |-> <<>>]
       ELSE IF byName # 0
       THEN [id |-> team_states[byName].id, warning |-> <<>>]
       ELSE [id |-> None, warning |-> <<"no mapping for status '", status, "'">>]

\* (state id | None, warning | <<>>)
_resolve_state_id_for_status(mappings, wsbt, issue, status) ==
    LET status_key == casefold(status)
        configured_mapping == DictGet(mappings, status_key, None)
        team_states == TeamStates(wsbt, issue)
        byOverride == FirstIndex(team_states,
                        LAMBDA st : st.id = configured_mapping
                                    \/ casefold(st.name) = casefold(configured_mapping))
        byName == FirstIndex(team_states, LAMBDA st : casefold(st.name) = status_key)
    IN IF Truthy(configured_mapping)
       THEN IF byOverride # 0
            THEN [id |-> team_states[byOverride].id, warning |-> <<>>]
            ELSE IF team_states # <<>>
            THEN [id |-> None,
                  warning |-> <<"configured mapping '", configured_mapping,
                                "' not found for team workflow states">>]
            ELSE [id |-> None,
                  warning |-> <<"configured mapping '", configured_mapping,
                                "' could not be validated (no team workflow states cached)">>]
       ELSE IF byName # 0
            THEN [id |-> team_states[byName].id, warning |-> <<>>]
            ELSE IF ~Truthy(issue.team_id)
            THEN [id |-> None,
                  warning |-> <<"no team id on ", issue.id, "; unable to map status '",
                                status, "' to Linear state id">>]
            ELSE IF team_states = <<>>
            THEN [id |-> None,
                  warning |-> <<"no workflow states cached for team ", issue.team_id,
                                "; run sync to populate state mapping">>]
            ELSE [id |-> None,
                  warning |-> <<"no mapping for status '", status, "' in team ",
                                issue.team_id, "; add linear_status_mappings.",
                                status_key, " in projectdash.config.json">>]

\* _remote_issue_id that always gives the human key
_remote_issue_id_human_key(issue) == issue.id

_remote_issue_id(issue) == IF Truthy(issue.linear_id) THEN issue.linear_id ELSE issue.id

\* the words of interest that occur in message.casefold()
Words(message) ==
    CASE message = "Issue is archived"            -> {"archived"}
      [] message = "You don't have permission"    -> {"permission"}
      [] message = "Invalid state transition"     -> {"state", "invalid"}
      [] message = "State not found"              -> {"state", "not found"}
      [] message = "stale issue"                  -> {"stale"}
      [] message = "Conflict detected"            -> {"conflict"}
      [] message = "Entity not found"             -> {"not found"}
      [] message = "Archived issue has a conflict" -> {"archived", "conflict"}
      [] message = "Stale state not found"        -> {"stale", "state", "not found"}
      [] message = "No permission: ARCHIVED"      -> {"permission", "archived"}
      [] OTHER                                    -> {}

\* an exception: a LinearApiError (api) with message, code and type, or any
\* other exception with its text in message
ApiError(message, code, type) ==
    [api |-> TRUE, message |-> message, code |-> code, type |-> type]
OtherError(message) ==
    [api |-> FALSE, message |-> message, code |-> None, type |-> None]

\* a classification that looks for a stale issue before an invalid state
_format_remote_error_stale_first(error) ==
    IF error.api
    THEN LET lowered == Words(error.message)
             reason ==
                IF "archived" \in lowered THEN "issue is archived"
                ELSE IF "permission" \in lowered \/ error.code \in {"FORBIDDEN", "UNAUTHORIZED"}
                THEN "permission denied"
                ELSE IF "stale" \in lowered \/ "conflict" \in lowered
                THEN "stale issue data"
                ELSE IF "state" \in lowered /\ ("invalid" \in lowered \/ "not found" \in lowered)
                THEN "invalid state"
                ELSE IF "not found" \in lowered
                THEN "issue not found or inaccessible"
                ELSE "Linear API error"
             suffix == (IF Truthy(error.code) THEN <<"code=", error.code>> ELSE <<>>)
                       \o (IF Truthy(error.type) THEN <<"type=", error.type>> ELSE <<>>)
             suffix_text == IF suffix # <<>> THEN <<" (">> \o suffix \o <<")">> ELSE <<>>
         IN <<reason, ": ", error.message>> \o suffix_text
    ELSE <<error.message>>

_format_remote_error(error) ==
    IF error.api
    THEN LET lowered == Words(error.message)
             reason ==
                IF "archived" \in lowered THEN "issue is archived"
                ELSE IF "permission" \in lowered \/ error.code \in {"FORBIDDEN", "UNAUTHORIZED"}
                THEN "permission denied"
                ELSE IF "state" \in lowered /\ ("invalid" \in lowered \/ "not found" \in lowered)
                THEN "invalid state"
                ELSE IF "stale" \in lowered \/ "conflict" \in lowered
                THEN "stale issue data"
                ELSE IF "not found" \in lowered
                THEN "issue not found or inaccessible"
                ELSE "Linear API error"
             suffix == (IF Truthy(error.code) THEN <<"code=", error.code>> ELSE <<>>)
                       \o (IF Truthy(error.type) THEN <<"type=", error.type>> ELSE <<>>)
             suffix_text == IF suffix # <<>> THEN <<" (">> \o suffix \o <<")">> ELSE <<>>
         IN <<reason, ": ", error.message>> \o suffix_text
    ELSE <<error.message>>

\* _should_reconcile_remote_failure that takes every structured remote error
\* for a conflict
_should_reconcile_any_api_error(error) == error.api

_should_reconcile_remote_failure(error) ==
    IF ~error.api THEN FALSE
    ELSE IF error.code \in {"CONFLICT", "NOT_FOUND"} THEN TRUE
    ELSE "stale" \in Words(error.message) \/ "conflict" \in Words(error.message)

----------------------------------------------------------------------------
(* The world: every field of the DataManager, its configuration and the    *)
(* tables of its store, as one record that the operations transform.       *)

World ==
    [users |-> users, projects |-> projects, issues |-> issues,
     workflow_states_by_team |-> workflow_states_by_team,
     sync_in_progress |-> sync_in_progress, last_sync_at |-> last_sync_at,
     last_sync_error |-> last_sync_error, last_sync_result |-> last_sync_result,
     sync_diagnostics |-> sync_diagnostics, last_sync_counts |-> last_sync_counts,
     sync_history |-> sync_history,
     linear_status_mappings |-> linear_status_mappings,
     api_key |-> api_key, env_api_key |-> env_api_key,
     db_users |-> db_users, db_projects |-> db_projects, db_issues |-> db_issues,
     db_workflow_states |-> db_workflow_states, db_sync_history |-> db_sync_history,
     db_seq |-> db_seq, clock |-> clock]

\* the next state is the world w
Becomes(w) ==
    /\ users' = w.users
    /\ projects' = w.projects
    /\ issues' = w.issues
    /\ workflow_states_by_team' = w.workflow_states_by_team
    /\ sync_in_progress' = w.sync_in_progress
    /\ last_sync_at' = w.last_sync_at
    /\ last_sync_error' = w.last_sync_error
    /\ last_sync_result' = w.last_sync_result
    /\ sync_diagnostics' = w.sync_diagnostics
    /\ last_sync_counts' = w.last_sync_counts
    /\ sync_history' = w.sync_history
    /\ linear_status_mappings' = w.linear_status_mappings
    /\ api_key' = w.api_key
    /\ env_api_key' = w.env_api_key
    /\ db_users' = w.db_users
    /\ db_projects' = w.db_projects
    /\ db_issues' = w.db_issues
    /\ db_workflow_states' = w.db_workflow_states
    /\ db_sync_history' = w.db_sync_history
    /\ db_seq' = w.db_seq
    /\ clock' = w.clock

----------------------------------------------------------------------------
(* load_from_cache: data.py:76-86 *)

\* the team ids of the model, in the order the by-team dict is flattened
TeamOrder == <<"team-1", "team-2">>

\* a grouping that files every state under the team of the first one
GroupByTeam_under_first_team(states) == IF states = <<>> THEN <<>> ELSE (states[1].team_id :> states)

\* workflow_states_by_team.setdefault(state.team_id, []).append(state)
GroupByTeam(states) ==
    [t \in {st.team_id : st \in Range(states)} |->
        SelectSeq(states, LAMBDA st : st.team_id = t)]

LoadOrder == <<"db.get_users", "db.get_projects", "db.get_issues",
               "db.get_workflow_states", "db.get_sync_history">>

\* a load that also marks the engine as synced
load_from_cache_marking_synced(w, stop) ==
    [w |-> [w EXCEPT !.users = get_users(w.db_users), !.projects = get_projects(w.db_projects),
                     !.issues = get_issues(w.db_issues, w.db_users, w.clock),
                     !.workflow_states_by_team = GroupByTeam(get_workflow_states(w.db_workflow_states)),
                     !.sync_history = get_sync_history(w.db_sync_history, HistoryLimit),
                     !.last_sync_result = "success", !.last_sync_error = NoError],
     raised |-> FALSE]

\* stop names the store read that raises ("none": no read raises); the
\* fields assigned before it keep their new values
load_from_cache(w, stop) ==
    LET n == FirstIndex(LoadOrder, LAMBDA x : x = stop)
        done(k) == n = 0 \/ k < n
    IN [w |-> [w EXCEPT
                 !.users = IF done(1) THEN get_users(w.db_users) ELSE @,
                 !.projects = IF done(2) THEN get_projects(w.db_projects) ELSE @,
                 !.issues = IF done(3) THEN get_issues(w.db_issues, w.db_users, w.clock) ELSE @,
                 !.workflow_states_by_team =
                     IF done(4) THEN GroupByTeam(get_workflow_states(w.db_workflow_states))
                     ELSE @,
                 !.sync_history =
                     IF done(5) THEN get_sync_history(w.db_sync_history, HistoryLimit)
                     ELSE @],
        raised |-> n # 0]

----------------------------------------------------------------------------
(* sync_with_linear: data.py:88-222 *)

\* "blocked" in status.lower()
HasBlocked(status) == status \in {"Blocked", "Blocked by review"}

\* users_dict: the assignees of the fetched issues, first occurrence of
\* each id, in order of appearance (data.py:144-152)
RECURSIVE UsersDict(_, _)
UsersDict(raw_issues, acc) ==
    IF raw_issues = <<>> THEN acc
    ELSE LET a == Head(raw_issues).assignee
         IN UsersDict(Tail(raw_issues),
                      IF a = NoUser \/ \E k \in 1..Len(acc) : acc[k].id = a.id
                      THEN acc ELSE Append(acc, a))

\* the Issue built from a fetched node (data.py:154-166, 498-510)
IssueOfRaw(i, known, now) ==
    LET k == FirstIndex(known, LAMBDA u : u.id = i.assignee.id)
    IN [id |-> i.identifier, linear_id |-> i.id, title |-> i.title,
        priority |-> Str(i.priority), due_date |-> i.dueDate,
        description |-> None, created_at |-> now,
        status |-> IF i.state # NoState THEN i.state.name ELSE "Todo",
        state_id |-> IF i.state # NoState THEN i.state.id ELSE None,
        team_id |-> i.team_id,
        assignee |-> IF i.assignee = NoUser THEN NoUser
                     ELSE IF k = 0 THEN i.assignee ELSE known[k],
        points |-> IF i.estimate = NoEstimate THEN 0 ELSE i.estimate,
        project_id |-> i.project_id]

\* the Project built from a fetched node and the built issues (data.py:168-186)
ProjectOfRaw(p, built) ==
    LET mine == {k \in 1..Len(built) :
                    Truthy(built[k].project_id) /\ built[k].project_id = p.id}
    IN [id |-> p.id, name |-> p.name,
        status |-> IF Truthy(p.state) THEN p.state ELSE "Active",
        issues_count |-> Cardinality(mine),
        in_progress_count |->
            Cardinality({k \in mine : built[k].status \in {"In Progress", "Review"}}),
        blocked_count |-> Cardinality({k \in mine : HasBlocked(built[k].status)}),
        due_date |-> IF Truthy(p.targetDate) THEN p.targetDate ELSE "N/A",
        cycle |-> "Current"]

\* data.py:383-401; a later team with the same id overwrites an earlier one
_cache_workflow_states(raw_teams) ==
    LET lastOf(withId, tid) ==
            CHOOSE k \in 1..Len(withId) :
                /\ withId[k].id = tid
                /\ \A j \in (k + 1)..Len(withId) : withId[j].id # tid
        states(team) ==
            With(SelectSeq(team.states, LAMBDA st : Truthy(st.id) /\ Truthy(st.name)),
                 LAMBDA nodes :
                    [k \in 1..Len(nodes) |->
                        [id |-> nodes[k].id, name |-> nodes[k].name,
                         type |-> IF Truthy(nodes[k].type) THEN nodes[k].type
                                  ELSE "unstarted",
                         team_id |-> team.id, team_key |-> team.key]])
    IN With(SelectSeq(raw_teams, LAMBDA t : Truthy(t.id)),
            LAMBDA withId :
               [tid \in {withId[k].id : k \in 1..Len(withId)} |->
                   states(withId[lastOf(withId, tid)])])

RECURSIVE FlattenFrom(_, _)
FlattenFrom(wsbt, k) ==
    IF k > Len(TeamOrder) THEN <<>>
    ELSE DictGet(wsbt, TeamOrder[k], <<>>) \o FlattenFrom(wsbt, k + 1)

\* data.py:526-530
_flatten_workflow_states(wsbt) == FlattenFrom(wsbt, 1)

\* data.py:548-557
_sync_status_summary_core(w) ==
    IF w.last_sync_result = "success"
    THEN <<"success u:", Str(DictGet(w.last_sync_counts, "users", Len(w.users))),
           " p:", Str(DictGet(w.last_sync_counts, "projects", Len(w.projects))),
           " i:", Str(DictGet(w.last_sync_counts, "issues", Len(w.issues))),
           " t:", Str(DictGet(w.last_sync_counts, "teams",
                              Cardinality(DOMAIN w.workflow_states_by_team)))>>
    ELSE IF w.last_sync_error # NoError
    THEN <<"failed: ">> \o w.last_sync_error
    ELSE <<w.last_sync_result>>

\* a recording that appends the attempt but does not read the history back
_record_sync_history_without_refresh(w, hist) ==
    IF w.last_sync_result = "syncing" \/ hist = "append" THEN w
    ELSE [w EXCEPT !.db_sync_history =
                       append_sync_history(@, w.db_seq + 1, w.clock,
                           w.last_sync_result, _sync_status_summary_core(w),
                           w.sync_diagnostics, MaxEntries),
                   !.db_seq = @ + 1]

\* data.py:532-546; hist names the store call on the history that raises:
\* "append", "read" or "none".  The exception is swallowed.
_record_sync_history(w, hist) ==
    IF w.last_sync_result = "syncing" THEN w
    ELSE IF hist = "append" THEN w
    ELSE With([w EXCEPT !.db_sync_history =
                            append_sync_history(@, w.db_seq + 1, w.clock,
                                w.last_sync_result, _sync_status_summary_core(w),
                                w.sync_diagnostics, MaxEntries),
                        !.db_seq = @ + 1],
              LAMBDA appended :
                 IF hist = "read" THEN appended
                 ELSE [appended EXCEPT !.sync_history =
                           get_sync_history(appended.db_sync_history, HistoryLimit)])

\* a credential test that always finds a credential
CredentialMissing_never(w) == FALSE

\* data.py:96-97: os.getenv("LINEAR_API_KEY") is unset or empty
CredentialMissing(w) == ~w.env_api_key

\* a failing step that sets error and result but records no diagnostic
StepFailed_without_diagnostic(w, error, step, e) ==
    [w EXCEPT !.last_sync_error = error,
              !.last_sync_result = "failed"]

\* a pipeline step failed: error text, result and the step's diagnostic
StepFailed(w, error, step, e) ==
    [w EXCEPT !.last_sync_error = error,
              !.last_sync_result = "failed",
              !.sync_diagnostics = DictSet(@, step, <<"failed: ", e>>)]

StepOk(w, step, detail) ==
    [w EXCEPT !.sync_diagnostics = DictSet(@, step, detail)]

\* the store calls of the persist step and the tables they write, in the
\* order of data.py:189-192
PersistCalls ==
    <<"db.save_users", "db.save_projects", "db.save_issues", "db.save_workflow_states">>
PersistTables == <<"users", "projects", "issues", "workflow_states">>

\* call k of the persist step on wx: one batch, committed as a whole
PersistWrite(wx, k, users_dict, built_projects, built) ==
    CASE k = 1 -> [wx EXCEPT !.db_users = save_users(@, users_dict)]
      [] k = 2 -> [wx EXCEPT !.db_projects = save_projects(@, built_projects)]
      [] k = 3 -> [wx EXCEPT !.db_issues = save_issues(@, built, None)]
      [] k = 4 -> [wx EXCEPT !.db_workflow_states =
                      save_workflow_states(@, _flatten_workflow_states(wx.workflow_states_by_team))]

\* calls k.. of the persist step; the call named by stop raises before it
\* commits anything, and no later call is made
RECURSIVE PersistFrom(_, _, _, _, _, _)
PersistFrom(wx, k, users_dict, built_projects, built, stop) ==
    IF k > Len(PersistCalls)
    THEN [w |-> wx, raised |-> FALSE, writes |-> PersistTables]
    ELSE IF stop = PersistCalls[k]
    THEN [w |-> wx, raised |-> TRUE, writes |-> SubSeq(PersistTables, 1, k - 1)]
    ELSE PersistFrom(PersistWrite(wx, k, users_dict, built_projects, built), k + 1,
                     users_dict, built_projects, built, stop)

\* a persist step that still writes the workflow states after an earlier
\* write has failed
persist_writing_states_after_failure(wx, users_dict, built_projects, built, stop) ==
    With(PersistFrom(wx, 1, users_dict, built_projects, built, stop), LAMBDA r :
         IF r.raised /\ Len(r.writes) < 3
         THEN [r EXCEPT !.w = PersistWrite(r.w, 4, users_dict, built_projects, built)]
         ELSE r)

\* the try block of the persist step (data.py:188-192)
persist(wx, users_dict, built_projects, built, stop) ==
    PersistFrom(wx, 1, users_dict, built_projects, built, stop)

\* The try body of sync_with_linear (data.py:96-214).  The script s gives
\* the responses of the collaborators: s.stop names the first remote call
\* or store call of the pipeline that raises ("none": no call raises), s.e
\* the text of that exception, s.data the fetched viewer, projects, teams
\* and issues.  A fetched issue with ok = FALSE lacks a required key, and
\* building the entities from it raises.
SyncBody(w, s) ==
    LET d == s.data
        out(w2, raised, calls, writes) ==
            [w |-> w2, raised |-> raised, remote_calls |-> calls, writes |-> writes]
        fetched == <<"get_me", "get_projects", "get_team_workflow_states", "get_issues">>
        allWrites == PersistTables
        persistFailed(wx) ==
            StepFailed(wx, <<"persist failed: ", s.e>>, "persist", s.e)
        counts(wx) ==
            [k \in {"users", "projects", "issues", "teams"} |->
                CASE k = "users" -> Len(wx.users)
                  [] k = "projects" -> Len(wx.projects)
                  [] k = "issues" -> Len(wx.issues)
                  [] k = "teams" -> Cardinality(DOMAIN wx.workflow_states_by_team)]
    IN
    With(StepOk(w, "auth", <<"ok: ", d.viewer>>), LAMBDA wAuth :
    With(StepOk(wAuth, "projects", <<"ok: ", Str(Len(d.projects))>>), LAMBDA wProj :
    With(StepOk(wProj, "workflow_states", <<"ok: ", Str(Len(d.teams)), " teams">>),
         LAMBDA wTeam :
    With(StepOk(wTeam, "issues", <<"ok: ", Str(Len(d.issues))>>), LAMBDA wIss :
    With([wIss EXCEPT !.workflow_states_by_team = _cache_workflow_states(d.teams)],
         LAMBDA wCache :
    With(UsersDict(d.issues, <<>>), LAMBDA users_dict :
    With([k \in 1..Len(d.issues) |-> IssueOfRaw(d.issues[k], users_dict, w.clock)], LAMBDA built :
    With([k \in 1..Len(d.projects) |-> ProjectOfRaw(d.projects[k], built)],
         LAMBDA built_projects :
    With(persist(wCache, users_dict, built_projects, built, s.stop), LAMBDA persisted :
    With(load_from_cache(StepOk(persisted.w, "persist", <<"ok">>), s.stop), LAMBDA reloaded :
    With(StepOk(reloaded.w, "reload", <<"ok">>), LAMBDA wReload :
       IF CredentialMissing(w)
       THEN out(StepFailed(w, <<"LINEAR_API_KEY not set">>, "auth", "LINEAR_API_KEY not set"),
                FALSE, <<>>, <<>>)
       ELSE IF s.stop = "linear.get_me"
       THEN out(StepFailed(w, <<"auth failed: ", s.e>>, "auth", s.e),
                FALSE, SubSeq(fetched, 1, 1), <<>>)
       ELSE IF s.stop = "linear.get_projects"
       THEN out(StepFailed(wAuth, <<"projects fetch failed: ", s.e>>, "projects", s.e),
                FALSE, SubSeq(fetched, 1, 2), <<>>)
       ELSE IF s.stop = "linear.get_team_workflow_states"
       THEN out(StepFailed(wProj, <<"workflow states fetch failed: ", s.e>>,
                           "workflow_states", s.e),
                FALSE, SubSeq(fetched, 1, 3), <<>>)
       ELSE IF s.stop = "linear.get_issues"
       THEN out(StepFailed(wTeam, <<"issues fetch failed: ", s.e>>, "issues", s.e),
                FALSE, fetched, <<>>)
       ELSE IF \E k \in 1..Len(d.issues) : ~d.issues[k].ok
       THEN out(StepFailed(wCache, <<"KeyError">>, "unexpected", "KeyError"),
                TRUE, fetched, <<>>)
       ELSE IF persisted.raised
       THEN out(persistFailed(persisted.w), FALSE, fetched, persisted.writes)
       ELSE IF reloaded.raised
       THEN out(StepFailed(reloaded.w, <<"reload failed: ", s.e>>, "reload", s.e),
                FALSE, fetched, allWrites)
       ELSE out([wReload EXCEPT !.last_sync_counts = counts(wReload),
                                !.last_sync_at = w.clock,
                                !.last_sync_result = "success"],
                FALSE, fetched, allWrites))))))))))))

\* sync_with_linear whose history recording is skipped when the pipeline
\* raised (no finally clause around it)
sync_with_linear_recording_unless_raised(w, s) ==
    With(SyncBody([w EXCEPT !.sync_in_progress = TRUE,
                            !.last_sync_error = NoError,
                            !.last_sync_result = "syncing",
                            !.sync_diagnostics = EmptyDict,
                            !.last_sync_counts = EmptyCounts,
                            !.clock = @ + 1],
                  s),
         LAMBDA body :
    With(IF body.raised THEN body.w ELSE _record_sync_history(body.w, s.hist),
         LAMBDA recorded :
       [body EXCEPT !.w = [recorded EXCEPT !.sync_in_progress = FALSE],
                    !.writes = IF recorded.db_seq # body.w.db_seq
                               THEN Append(@, "sync_history") ELSE @]))

\* sync_with_linear without the "raise" of its except clause: the
\* unexpected exception is recorded and does not reach the caller
sync_with_linear_swallowing(w, s) ==
    With(SyncBody([w EXCEPT !.sync_in_progress = TRUE,
                            !.last_sync_error = NoError,
                            !.last_sync_result = "syncing",
                            !.sync_diagnostics = EmptyDict,
                            !.last_sync_counts = EmptyCounts,
                            !.clock = @ + 1],
                  s),
         LAMBDA body :
    With(_record_sync_history(body.w, s.hist), LAMBDA recorded :
       [body EXCEPT !.w = [recorded EXCEPT !.sync_in_progress = FALSE],
                    !.raised = FALSE,
                    !.writes = IF recorded.db_seq # body.w.db_seq
                               THEN Append(@, "sync_history") ELSE @]))

\* data.py:88-222: reset the last-sync fields, run the pipeline, and in the
\* finally clause record the attempt and clear the in-progress flag.
\* raised: an unexpected exception reaches the caller.
sync_with_linear(w, s) ==
    With(SyncBody([w EXCEPT !.sync_in_progress = TRUE,
                            !.last_sync_error = NoError,
                            !.last_sync_result = "syncing",
                            !.sync_diagnostics = EmptyDict,
                            !.last_sync_counts = EmptyCounts,
                            !.clock = @ + 1],
                  s),
         LAMBDA body :
    With(_record_sync_history(body.w, s.hist), LAMBDA recorded :
       [body EXCEPT !.w = [recorded EXCEPT !.sync_in_progress = FALSE],
                    !.writes = IF recorded.db_seq # body.w.db_seq
                               THEN Append(@, "sync_history") ELSE @]))

----------------------------------------------------------------------------
(* Write-through mutations: data.py:254-381, 459-524 *)

\* data.py:254-258: the position of the first issue with that id, 0 if none
get_issue_by_id(w, issue_id) == FirstIndex(w.issues, LAMBDA i : i.id = issue_id)

\* _restore_issue_fields that leaves the workflow-state id as it is
_restore_issue_fields_but_state_id(w, idx, previous_values) ==
    [w EXCEPT !.issues[idx] =
        [f \in DOMAIN @ |-> IF f \in DOMAIN previous_values /\ f # "state_id"
                            THEN previous_values[f] ELSE @[f]]]

\* data.py:379-381: setattr for every saved field
_restore_issue_fields(w, idx, previous_values) ==
    [w EXCEPT !.issues[idx] =
        [f \in DOMAIN @ |-> IF f \in DOMAIN previous_values THEN previous_values[f] ELSE @[f]]]

\* _apply_remote_issue that looks for the issue to replace by key only, not
\* by remote identifier
_apply_remote_issue_by_key_only(w, raw_issue, stop) ==
    With(IF raw_issue.assignee # NoUser
            /\ FirstIndex(w.users, LAMBDA u : u.id = raw_issue.assignee.id) = 0
         THEN Append(w.users, raw_issue.assignee) ELSE w.users,
         LAMBDA users2 :
    With(IssueOfRaw(raw_issue, w.users, w.clock), LAMBDA remote_issue :
    With(FirstIndex(w.issues, LAMBDA existing : existing.id = remote_issue.id),
         LAMBDA idx :
    With([w EXCEPT !.users = users2], LAMBDA wUsers :
    With([wUsers EXCEPT !.issues = IF idx # 0 THEN [@ EXCEPT ![idx] = remote_issue]
                                   ELSE Append(@, remote_issue)],
         LAMBDA wMem :
    With([wMem EXCEPT !.db_users = save_users(@, users2)], LAMBDA wSavedUsers :
       IF ~raw_issue.ok
       THEN [w |-> wUsers, raised |-> TRUE, writes |-> <<>>, replaced |-> FALSE]
       ELSE IF stop = "db.save_users"
       THEN [w |-> wMem, raised |-> TRUE, writes |-> <<>>, replaced |-> TRUE]
       ELSE IF stop = "db.save_issues"
       THEN [w |-> wSavedUsers, raised |-> TRUE, writes |-> <<"users">>, replaced |-> TRUE]
       ELSE [w |-> [wSavedUsers EXCEPT
                       !.db_issues = save_issues(@, <<remote_issue>>,
                                                 remote_issue.project_id)],
             raised |-> FALSE, writes |-> <<"users", "issues">>,
             replaced |-> TRUE]))))))

\* _apply_remote_issue that puts the fetched issue in the place of the first
\* issue of the snapshot, whichever it is
_apply_remote_issue_replacing_first(w, raw_issue, stop) ==
    With(IF raw_issue.assignee # NoUser
            /\ FirstIndex(w.users, LAMBDA u : u.id = raw_issue.assignee.id) = 0
         THEN Append(w.users, raw_issue.assignee) ELSE w.users,
         LAMBDA users2 :
    With(IssueOfRaw(raw_issue, w.users, w.clock), LAMBDA remote_issue :
    With(IF w.issues = <<>> THEN 0 ELSE 1, LAMBDA idx :
    With([w EXCEPT !.users = users2], LAMBDA wUsers :
    With([wUsers EXCEPT !.issues = IF idx # 0 THEN [@ EXCEPT ![idx] = remote_issue]
                                   ELSE Append(@, remote_issue)],
         LAMBDA wMem :
    With([wMem EXCEPT !.db_users = save_users(@, users2)], LAMBDA wSavedUsers :
       IF ~raw_issue.ok
       THEN [w |-> wUsers, raised |-> TRUE, writes |-> <<>>, replaced |-> FALSE]
       ELSE IF stop = "db.save_users"
       THEN [w |-> wMem, raised |-> TRUE, writes |-> <<>>, replaced |-> TRUE]
       ELSE IF stop = "db.save_issues"
       THEN [w |-> wSavedUsers, raised |-> TRUE, writes |-> <<"users">>, replaced |-> TRUE]
       ELSE [w |-> [wSavedUsers EXCEPT
                       !.db_issues = save_issues(@, <<remote_issue>>,
                                                 remote_issue.project_id)],
             raised |-> FALSE, writes |-> <<"users", "issues">>,
             replaced |-> TRUE]))))))

\* data.py:486-524.  stop names the store write that raises ("none": none).
\* A fetched issue with ok = FALSE lacks a required key: building the Issue
\* raises after the assignee was added to the users.
_apply_remote_issue(w, raw_issue, stop) ==
    With(IF raw_issue.assignee # NoUser
            /\ FirstIndex(w.users, LAMBDA u : u.id = raw_issue.assignee.id) = 0
         THEN Append(w.users, raw_issue.assignee) ELSE w.users,
         LAMBDA users2 :
    With(IssueOfRaw(raw_issue, w.users, w.clock), LAMBDA remote_issue :
    With(FirstIndex(w.issues,
                    LAMBDA existing : existing.id = remote_issue.id
                        \/ (existing.linear_id # None
                            /\ existing.linear_id = remote_issue.linear_id)),
         LAMBDA idx :
    With([w EXCEPT !.users = users2], LAMBDA wUsers :
    With([wUsers EXCEPT !.issues = IF idx # 0 THEN [@ EXCEPT ![idx] = remote_issue]
                                   ELSE Append(@, remote_issue)],
         LAMBDA wMem :
    With([wMem EXCEPT !.db_users = save_users(@, users2)], LAMBDA wSavedUsers :
       IF ~raw_issue.ok
       THEN [w |-> wUsers, raised |-> TRUE, writes |-> <<>>, replaced |-> FALSE]
       ELSE IF stop = "db.save_users"
       THEN [w |-> wMem, raised |-> TRUE, writes |-> <<>>, replaced |-> TRUE]
       ELSE IF stop = "db.save_issues"
       THEN [w |-> wSavedUsers, raised |-> TRUE, writes |-> <<"users">>, replaced |-> TRUE]
       ELSE [w |-> [wSavedUsers EXCEPT
                       !.db_issues = save_issues(@, <<remote_issue>>,
                                                 remote_issue.project_id)],
             raised |-> FALSE, writes |-> <<"users", "issues">>,
             replaced |-> TRUE]))))))

\* what a reconciliation did: the world after it, the message suffix, the
\* getIssue calls, the syncs started (result and whether each raised), the
\* store writes committed, whether a fetched issue was put in memory
NoReconcile(w) ==
    [w |-> w, suffix |-> <<>>, get_issue_calls |-> <<>>, syncs |-> <<>>,
     writes |-> <<>>, replaced |-> FALSE, sync_remote_calls |-> <<>>,
     raised |-> FALSE]

\* SyncFallback that reports a re-sync whenever the sync returned, whatever
\* its result
SyncFallback_ignoring_result(before, s) ==
    With(sync_with_linear(before.w, s), LAMBDA r :
       [before EXCEPT
          !.w = r.w,
          !.raised = FALSE,
          !.suffix = IF ~r.raised
                     THEN <<" (triggered full re-sync)">> ELSE <<>>,
          !.syncs = Append(@, [result |-> r.w.last_sync_result, raised |-> r.raised,
                               reached_reload |->
                                   "persist" \in DOMAIN r.w.sync_diagnostics
                                   /\ r.w.sync_diagnostics["persist"] = <<"ok">>]),
          !.writes = @ \o r.writes,
          !.sync_remote_calls = r.remote_calls])

\* SyncFallback without the "except Exception: pass" around the sync
SyncFallback_not_catching(before, s) ==
    With(sync_with_linear(before.w, s), LAMBDA r :
       [before EXCEPT
          !.w = r.w,
          !.raised = r.raised,
          !.suffix = IF ~r.raised /\ r.w.last_sync_result = "success"
                     THEN <<" (triggered full re-sync)">> ELSE <<>>,
          !.syncs = Append(@, [result |-> r.w.last_sync_result, raised |-> r.raised,
                               reached_reload |->
                                   "persist" \in DOMAIN r.w.sync_diagnostics
                                   /\ r.w.sync_diagnostics["persist"] = <<"ok">>]),
          !.writes = @ \o r.writes,
          !.sync_remote_calls = r.remote_calls])

\* the fallback of data.py:478-484: run a full sync; its exception is
\* caught by "except Exception: pass"
SyncFallback(before, s) ==
    With(sync_with_linear(before.w, s), LAMBDA r :
       [before EXCEPT
          !.w = r.w,
          !.raised = FALSE,
          !.suffix = IF ~r.raised /\ r.w.last_sync_result = "success"
                     THEN <<" (triggered full re-sync)">> ELSE <<>>,
          !.syncs = Append(@, [result |-> r.w.last_sync_result, raised |-> r.raised,
                               reached_reload |->
                                   "persist" \in DOMAIN r.w.sync_diagnostics
                                   /\ r.w.sync_diagnostics["persist"] = <<"ok">>]),
          !.writes = @ \o r.writes,
          !.sync_remote_calls = r.remote_calls])

\* data.py:467-484.  rec gives the collaborators' responses: rec.get_issue
\* is "raise", "null" or "found" (then rec.raw is the fetched issue),
\* rec.apply_stop the store write of the refetch that raises, rec.sync the
\* script of the fallback sync.
_reconcile_issue_after_remote_failure(w, idx, rec) ==
    With([NoReconcile(w) EXCEPT !.get_issue_calls = <<w.issues[idx].linear_id>>],
         LAMBDA fetchedOnly :
    With(_apply_remote_issue(w, rec.raw, rec.apply_stop), LAMBDA applied :
       IF ~w.api_key THEN NoReconcile(w)
       ELSE IF ~Truthy(w.issues[idx].linear_id) THEN SyncFallback(NoReconcile(w), rec.sync)
       ELSE IF rec.get_issue = "found"
       THEN IF ~applied.raised
            THEN [fetchedOnly EXCEPT !.w = applied.w,
                                     !.suffix = <<" (re-fetched latest issue)">>,
                                     !.writes = applied.writes,
                                     !.replaced = applied.replaced]
            ELSE SyncFallback([fetchedOnly EXCEPT !.w = applied.w,
                                                  !.writes = applied.writes,
                                                  !.replaced = applied.replaced],
                              rec.sync)
       ELSE SyncFallback(fetchedOnly, rec.sync)))

\* the exception the remote update ends with, if any (data.py:356-358)
RemoteException(r) ==
    IF r.kind = "raise" THEN r.error ELSE OtherError("Linear rejected update")

\* _persist_issue_with_rollback that reports the failed write and keeps the
\* optimistic values
_persist_issue_without_rollback(w, idx, previous_values, save) ==
    IF save = "ok"
    THEN [w |-> [w EXCEPT !.db_issues =
                    save_issues(@, <<w.issues[idx]>>, w.issues[idx].project_id)],
          ok |-> TRUE, error |-> <<>>]
    ELSE [w |-> w, ok |-> FALSE, error |-> <<save>>]

\* data.py:371-377
_persist_issue_with_rollback(w, idx, previous_values, save) ==
    IF save = "ok"
    THEN [w |-> [w EXCEPT !.db_issues =
                    save_issues(@, <<w.issues[idx]>>, w.issues[idx].project_id)],
          ok |-> TRUE, error |-> <<>>]
    ELSE [w |-> _restore_issue_fields(w, idx, previous_values),
          ok |-> FALSE, error |-> <<save>>]

\* data.py:348-369.  w already holds the optimistic change of issue idx;
\* in.remote is the response of the remote update, in.save the outcome of
\* the store write ("ok" or the text of its exception), in.rec the script
\* of the reconciliation.
_write_through_issue_update(w, idx, previous_values, call, failure_prefix, in) ==
    With(RemoteException(in.remote), LAMBDA e :
    With(_restore_issue_fields(w, idx, previous_values), LAMBDA restored :
    With(IF _should_reconcile_remote_failure(e)
         THEN _reconcile_issue_after_remote_failure(restored, idx, in.rec)
         ELSE NoReconcile(restored),
         LAMBDA rc :
    With(_persist_issue_with_rollback(w, idx, previous_values, in.save),
         LAMBDA persisted :
       IF in.remote.kind # "success"
       THEN [w |-> rc.w, ok |-> FALSE,
             error |-> <<failure_prefix, ": ">> \o _format_remote_error(e) \o rc.suffix,
             remote_calls |-> <<call>>, rc |-> rc, exception |-> e,
             writes |-> rc.writes, raised |-> rc.raised]
       ELSE [w |-> persisted.w, ok |-> persisted.ok,
             error |-> IF persisted.ok THEN <<>>
                       ELSE <<failure_prefix, ": ">> \o persisted.error,
             remote_calls |-> <<call>>, rc |-> NoReconcile(w), exception |-> OtherError(""),
             writes |-> IF persisted.ok THEN <<"issues">> ELSE <<>>,
             raised |-> FALSE]))))

----------------------------------------------------------------------------
(* The three mutations.  Each returns the world after the call and the     *)
(* observation of the call: its result, the calls it made, and the issue   *)
(* and its store row as they were before the call.                         *)

NoIssue ==
    [id |-> None, linear_id |-> None, title |-> None, priority |-> None,
     due_date |-> None, status |-> None,
     state_id |-> None, team_id |-> None, assignee |-> NoUser, points |-> 0,
     project_id |-> None, description |-> None, created_at |-> 0]

NoRow ==
    [id |-> None, linear_id |-> None, title |-> None, priority |-> None,
     due_date |-> None, status |-> None,
     state_id |-> None, team_id |-> None, assignee_id |-> None, points |-> 0,
     project_id |-> None]

\* the store row with that primary key, NoRow when there is none
RowOf(table, issue_id) ==
    LET k == FirstIndex(table, LAMBDA r : r.id = issue_id)
    IN IF k = 0 THEN NoRow ELSE table[k]

\* the in-memory issue get_issue_by_id finds, NoIssue when there is none
IssueOf(w, issue_id) ==
    LET k == get_issue_by_id(w, issue_id)
    IN IF k = 0 THEN NoIssue ELSE w.issues[k]

NoCall == [op |-> "none", id |-> None, arg |-> None]

\* the observation of a call that returned before the write-through
Early(w, op, issue_id, ok, message, target) ==
    [w |-> w,
     o |-> [op |-> op, issue_id |-> issue_id, found |-> get_issue_by_id(w, issue_id) # 0,
            ok |-> ok, message |-> message, raised |-> FALSE,
            pre |-> IssueOf(w, issue_id), pre_row |-> RowOf(w.db_issues, issue_id),
            target |-> target, wrote_through |-> FALSE,
            remote_kind |-> "none", exception |-> OtherError(""),
            remote_calls |-> <<>>, get_issue_calls |-> <<>>, syncs |-> <<>>,
            writes |-> <<>>, replaced |-> FALSE, fetched |-> NoIssue,
            reconciled |-> FALSE, save |-> "none", got |-> "none",
            apply_stop |-> "none"]]

\* the observation of a call that went through the write-through wt
Through(w, op, issue_id, wt, in, message, target) ==
    [w |-> wt.w,
     o |-> [op |-> op, issue_id |-> issue_id, found |-> TRUE,
            ok |-> wt.ok, message |-> message, raised |-> wt.raised,
            pre |-> IssueOf(w, issue_id), pre_row |-> RowOf(w.db_issues, issue_id),
            target |-> target, wrote_through |-> TRUE,
            remote_kind |-> in.remote.kind, exception |-> wt.exception,
            remote_calls |-> wt.remote_calls, get_issue_calls |-> wt.rc.get_issue_calls,
            syncs |-> wt.rc.syncs, writes |-> wt.writes, replaced |-> wt.rc.replaced,
            fetched |-> IF wt.rc.get_issue_calls # <<>> /\ in.rec.get_issue = "found"
                        THEN IssueOfRaw(in.rec.raw, w.users, w.clock) ELSE NoIssue,
            reconciled |-> in.remote.kind # "success"
                           /\ _should_reconcile_remote_failure(wt.exception)
                           /\ w.api_key,
            save |-> IF in.remote.kind = "success" THEN in.save ELSE "none",
            got |-> IF wt.rc.get_issue_calls # <<>> THEN in.rec.get_issue ELSE "none",
            apply_stop |-> IF wt.rc.get_issue_calls # <<>> /\ in.rec.get_issue = "found"
                           THEN in.rec.apply_stop ELSE "none"]]

\* cycle_issue_status that goes on to the remote update when the resolver
\* found no state id
cycle_issue_status_ignoring_unresolved(w, issue_id, statuses, in) ==
    With(get_issue_by_id(w, issue_id), LAMBDA idx :
    With(w.issues[idx], LAMBDA issue :
    With(FirstIndex(statuses, LAMBDA x : x = issue.status), LAMBDA pos :
    With(statuses[IF pos # 0 THEN (pos % Len(statuses)) + 1 ELSE 1], LAMBDA next_status :
    With([w EXCEPT !.issues[idx].status = next_status], LAMBDA wStatus :
    With(_resolve_state_id_for_status(w.linear_status_mappings,
             w.workflow_states_by_team, wStatus.issues[idx], next_status),
         LAMBDA resolved :
    With([wStatus EXCEPT !.issues[idx].state_id = resolved.id], LAMBDA wState :
    With(_write_through_issue_update(wState, idx,
             [status |-> issue.status, state_id |-> issue.state_id],
             [op |-> "update_issue_status", id |-> _remote_issue_id(wState.issues[idx]),
              arg |-> IF Truthy(wState.issues[idx].state_id)
                      THEN wState.issues[idx].state_id ELSE ""],
             "Status update failed", in),
         LAMBDA wt :
       IF idx = 0
       THEN Early(w, "status", issue_id, FALSE, <<"Issue not found: ", issue_id>>,
                  [status |-> None, state_id |-> None])
       ELSE IF statuses = <<>>
       THEN Early(w, "status", issue_id, FALSE, <<"No configured statuses">>,
                  [status |-> None, state_id |-> None])
       ELSE Through(w, "status", issue_id, wt, in,
                    IF ~wt.ok THEN (IF wt.error # <<>> THEN wt.error
                                    ELSE <<"Status update failed">>)
                    ELSE IF resolved.warning # <<>>
                    THEN <<issue.id, " moved to ", next_status, " (warning: ">>
                         \o resolved.warning \o <<")">>
                    ELSE <<issue.id, " moved to ", next_status>>,
                    [status |-> next_status, state_id |-> resolved.id])))))))))

\* a next index counted from the last occurrence of the status
next_index_from_last_occurrence(statuses, status) == IF \E k \in DOMAIN statuses : statuses[k] = status THEN ((CHOOSE k \in DOMAIN statuses : statuses[k] = status /\ \A j \in DOMAIN statuses : statuses[j] = status => j <= k) % Len(statuses)) + 1 ELSE 1

\* (statuses.index(issue.status) + 1) % len(statuses) when the status is
\* in the tuple, else 0 (data.py:266-269); positions count from 1 here
next_index(statuses, status) ==
    With(FirstIndex(statuses, LAMBDA x : x = status), LAMBDA pos :
        IF pos # 0 THEN (pos % Len(statuses)) + 1 ELSE 1)

\* data.py:260-293
cycle_issue_status(w, issue_id, statuses, in) ==
    With(get_issue_by_id(w, issue_id), LAMBDA idx :
    With(w.issues[idx], LAMBDA issue :
    With(statuses[next_index(statuses, issue.status)], LAMBDA next_status :
    With([w EXCEPT !.issues[idx].status = next_status], LAMBDA wStatus :
    With(_resolve_state_id_for_status(w.linear_status_mappings,
             w.workflow_states_by_team, wStatus.issues[idx], next_status),
         LAMBDA resolved :
    With([wStatus EXCEPT !.issues[idx].state_id = resolved.id], LAMBDA wState :
    With(_write_through_issue_update(wState, idx,
             [status |-> issue.status, state_id |-> issue.state_id],
             [op |-> "update_issue_status", id |-> _remote_issue_id(wState.issues[idx]),
              arg |-> IF Truthy(wState.issues[idx].state_id)
                      THEN wState.issues[idx].state_id ELSE ""],
             "Status update failed", in),
         LAMBDA wt :
       IF idx = 0
       THEN Early(w, "status", issue_id, FALSE, <<"Issue not found: ", issue_id>>,
                  [status |-> None, state_id |-> None])
       ELSE IF statuses = <<>>
       THEN Early(w, "status", issue_id, FALSE, <<"No configured statuses">>,
                  [status |-> None, state_id |-> None])
       ELSE IF resolved.id = None
       THEN [Early(w, "status", issue_id, FALSE,
                   <<"Status update failed", ": ">>
                   \o (IF resolved.warning # <<>> THEN resolved.warning
                       ELSE <<"no Linear state mapping for status '", next_status, "'">>),
                   [status |-> next_status, state_id |-> resolved.id])
                EXCEPT !.w = [wStatus EXCEPT !.issues[idx].status = issue.status,
                                             !.issues[idx].state_id = issue.state_id]]
       ELSE Through(w, "status", issue_id, wt, in,
                    IF ~wt.ok THEN (IF wt.error # <<>> THEN wt.error
                                    ELSE <<"Status update failed">>)
                    ELSE IF resolved.warning # <<>>
                    THEN <<issue.id, " moved to ", next_status, " (warning: ">>
                         \o resolved.warning \o <<")">>
                    ELSE <<issue.id, " moved to ", next_status>>,
                    [status |-> next_status, state_id |-> resolved.id]))))))))

\* a next assignee that wraps from the last user to the first user
next_assignee_skipping_unassigned(cycle, issue) == IF \E k \in 2..Len(cycle) : cycle[k].id = issue.assignee.id /\ k < Len(cycle) THEN cycle[(CHOOSE k \in 2..Len(cycle) : cycle[k].id = issue.assignee.id /\ \A j \in 2..(k - 1) : cycle[j].id # issue.assignee.id) + 1] ELSE cycle[IF Len(cycle) > 1 THEN 2 ELSE 1]

\* cycle[(current_index + 1) % len(cycle)], current_index the first
\* position whose entry is the issue's assignee by identifier (None for
\* None), 0 when there is none (data.py:302-310)
next_assignee_in(cycle, issue) ==
    With(FirstIndex(cycle,
             LAMBDA assignee : (issue.assignee = NoUser /\ assignee = NoUser)
                 \/ (issue.assignee # NoUser /\ assignee # NoUser
                     /\ issue.assignee.id = assignee.id)),
         LAMBDA found :
            cycle[((IF found = 0 THEN 1 ELSE found) % Len(cycle)) + 1])

\* data.py:295-326
cycle_issue_assignee(w, issue_id, in) ==
    With(get_issue_by_id(w, issue_id), LAMBDA idx :
    With(w.issues[idx], LAMBDA issue :
    With(<<NoUser>> \o w.users, LAMBDA cycle :
    With(next_assignee_in(cycle, issue), LAMBDA next_assignee :
    With(_write_through_issue_update([w EXCEPT !.issues[idx].assignee = next_assignee],
             idx, [assignee |-> issue.assignee],
             [op |-> "update_issue_assignee", id |-> _remote_issue_id(issue),
              arg |-> IF next_assignee # NoUser THEN next_assignee.id ELSE None],
             "Assignee update failed", in),
         LAMBDA wt :
       IF idx = 0
       THEN Early(w, "assignee", issue_id, FALSE, <<"Issue not found: ", issue_id>>, NoUser)
       ELSE Through(w, "assignee", issue_id, wt, in,
                    IF ~wt.ok THEN (IF wt.error # <<>> THEN wt.error
                                    ELSE <<"Assignee update failed">>)
                    ELSE <<issue.id, " assigned to ",
                           IF next_assignee # NoUser THEN next_assignee.name
                           ELSE "Unassigned">>,
                    next_assignee))))))

\* a wrap that already happens when the maximum is reached
next_points_wrapping_at_max(points, step, max_points) == IF points + step >= max_points THEN 0 ELSE points + step

\* points + step, or 0 when that exceeds max_points (data.py:333-335)
next_points_of(points, step, max_points) ==
    IF points + step > max_points THEN 0 ELSE points + step

\* data.py:328-346
cycle_issue_points(w, issue_id, step, max_points, in) ==
    With(get_issue_by_id(w, issue_id), LAMBDA idx :
    With(w.issues[idx], LAMBDA issue :
    With(next_points_of(issue.points, step, max_points), LAMBDA next_points :
    With(_write_through_issue_update([w EXCEPT !.issues[idx].points = next_points],
             idx, [points |-> issue.points],
             [op |-> "update_issue_estimate", id |-> _remote_issue_id(issue),
              arg |-> next_points],
             "Estimate update failed", in),
         LAMBDA wt :
       IF idx = 0
       THEN Early(w, "points", issue_id, FALSE, <<"Issue not found: ", issue_id>>, 0)
       ELSE Through(w, "points", issue_id, wt, in,
                    IF ~wt.ok THEN (IF wt.error # <<>> THEN wt.error
                                    ELSE <<"Estimate update failed">>)
                    ELSE <<issue.id, " estimate set to ", Str(next_points)>>,
                    next_points)))))

----------------------------------------------------------------------------
(* The values the runs draw from *)

Alice == [id |-> "u1", name |-> "Alice", avatar_url |-> None]
Carol == [id |-> "u3", name |-> "Carol", avatar_url |-> "carol.png"]

WorkflowState(id, name, type, team_id) ==
    [id |-> id, name |-> name, type |-> type, team_id |-> team_id, team_key |-> "ENG"]

\* the store a run starts from, as an earlier sync left it
StoredUsers == <<Alice>>
StoredProjects ==
    <<[id |-> "p1", name |-> "Acme", status |-> "Active", issues_count |-> 1,
       in_progress_count |-> 0, blocked_count |-> 0, due_date |-> "N/A",
       cycle |-> "Current"]>>
StoredIssues ==
    <<[id |-> "X-1", linear_id |-> "lin-1", title |-> "Task", priority |-> "2",
       due_date |-> "2024-03-01", status |-> "Todo",
       state_id |-> "state-1", team_id |-> "team-1", assignee_id |-> "u1",
       points |-> 1, project_id |-> "p1"],
      [id |-> "X-2", linear_id |-> None, title |-> "Local", priority |-> "0",
       due_date |-> None, status |-> "Backlog",
       state_id |-> None, team_id |-> "team-2", assignee_id |-> None,
       points |-> 0, project_id |-> None]>>
StoredWorkflowStates ==
    <<WorkflowState("state-1", "Todo", "unstarted", "team-1"),
      WorkflowState("state-2", "In Progress", "started", "team-1"),
      WorkflowState("state-3", "Started", "started", "team-1"),
      WorkflowState("state-9", "Done", "completed", "team-2")>>

\* linear_status_mappings of the configurations a run may have
Configs ==
    {EmptyDict,
     [k \in {"done", "todo"} |-> IF k = "done" THEN "STARTED" ELSE "state-9"]}

\* the status tuples passed to cycle_issue_status
StatusTuples == {<<>>, <<"Todo", "In Progress", "Done">>}

\* X-9 is the key of no stored issue; a refetch may rename X-1 to it
IssueIds == {"X-1", "X-2", "X-9"}

\* the responses of a remote update
Success == [kind |-> "success", error |-> OtherError("")]
Raise(e) == [kind |-> "raise", error |-> e]
PlainFailures ==
    {[kind |-> "unsuccessful", error |-> OtherError("")],
     [kind |-> "no_flag", error |-> OtherError("")],
     Raise(OtherError("network")),
     Raise(ApiError("Issue is archived", "FORBIDDEN", None)),
     Raise(ApiError("You don't have permission", None, "AuthError")),
     Raise(ApiError("Entity not found", None, None))}
ConflictFailures ==
    {Raise(ApiError("stale issue", "CONFLICT", None)),
     Raise(ApiError("Archived issue has a conflict", None, None)),
     Raise(ApiError("Something went wrong", "NOT_FOUND", None))}

\* fetched nodes
RawIssue(id, identifier, title, state, team_id, assignee, estimate, project_id, ok) ==
    [id |-> id, identifier |-> identifier, title |-> title, priority |-> 2,
     dueDate |-> None, state |-> state,
     team_id |-> team_id, assignee |-> assignee, estimate |-> estimate,
     project_id |-> project_id, ok |-> ok]

RawFresh ==
    RawIssue("lin-1", "X-1", "Task (Remote)", [id |-> "state-2", name |-> "In Progress"],
             "team-1", Carol, 8, "p1", TRUE)
RawRenamed ==
    RawIssue("lin-1", "X-9", "Task (Moved)", NoState, None, NoUser, NoEstimate, None, TRUE)
RawBroken ==
    RawIssue("lin-1", "X-1", None, NoState, None, NoUser, NoEstimate, None, FALSE)

\* what getIssue may return when it finds the issue
FetchedIssues == {RawFresh, RawRenamed}

RawTeams ==
    <<[id |-> "team-1", key |-> "ENG",
       states |-> <<[id |-> "state-1", name |-> "Todo", type |-> "unstarted"],
                    [id |-> "state-2", name |-> "In Progress", type |-> None]>>],
      [id |-> None, key |-> "OPS",
       states |-> <<[id |-> "state-9", name |-> "Done", type |-> "completed"]>>]>>

RawProjects ==
    <<[id |-> "p1", name |-> "Acme", state |-> None, targetDate |-> None]>>

RemoteData ==
    [viewer |-> "Me", projects |-> RawProjects, teams |-> RawTeams, issues |-> <<RawFresh>>]
BrokenData == [RemoteData EXCEPT !.issues = <<RawFresh, RawBroken>>]
\* a fetch whose teams carry no usable state: none at all, or one without a name
StatelessData ==
    [RemoteData EXCEPT !.teams =
        <<[id |-> "team-1", key |-> "ENG", states |-> <<>>],
          [id |-> "team-2", key |-> "OPS",
           states |-> <<[id |-> "state-7", name |-> None, type |-> "started"]>>]>>]

SyncScript(stop, e, data, hist) == [stop |-> stop, e |-> e, data |-> data, hist |-> hist]

\* every call of the sync answers
CleanSync == SyncScript("none", "", RemoteData, "none")

\* the scripts of a sync: one per call of the pipeline that may raise
SyncStops ==
    {"linear.get_me", "linear.get_projects", "linear.get_team_workflow_states",
     "linear.get_issues",
     "db.save_users", "db.save_projects", "db.save_issues", "db.save_workflow_states",
     "db.get_users", "db.get_projects", "db.get_issues", "db.get_workflow_states",
     "db.get_sync_history"}

\* the scripts of the sync that a reconciliation falls back to
FallbackSyncScripts(w) ==
    IF ~w.env_api_key
    THEN {CleanSync, SyncScript("none", "", RemoteData, "append")}
    ELSE {CleanSync,
          SyncScript("none", "", BrokenData, "none"),
          SyncScript("linear.get_issues", "rate limit", RemoteData, "none"),
          SyncScript("db.save_workflow_states", "disk I/O error", RemoteData, "none"),
          SyncScript("db.get_workflow_states", "disk I/O error", RemoteData, "append")}

\* the scripts of the sync that follows a refetch whose store write raised
RefetchFallbackSyncScripts(w) ==
    IF ~w.env_api_key THEN {CleanSync}
    ELSE {CleanSync, SyncScript("linear.get_issues", "rate limit", RemoteData, "none")}

ReconcileScript(get_issue, raw, apply_stop, sync) ==
    [get_issue |-> get_issue, raw |-> raw, apply_stop |-> apply_stop, sync |-> sync]

NoScript == ReconcileScript("null", RawFresh, "none", CleanSync)

\* the scripts of a reconciliation of the issue at idx: without a client
\* credential nothing is called, without a remote identifier getIssue is
\* not called
ReconcileScripts(w, idx) ==
    IF ~w.api_key THEN {NoScript}
    ELSE IF ~Truthy(w.issues[idx].linear_id)
    THEN {ReconcileScript("null", RawFresh, "none", s) : s \in FallbackSyncScripts(w)}
    ELSE {ReconcileScript("null", RawFresh, "none", s) : s \in FallbackSyncScripts(w)}
         \cup {ReconcileScript("raise", RawFresh, "none", CleanSync)}
         \cup {ReconcileScript("found", raw, "none", CleanSync) : raw \in FetchedIssues}
         \cup {ReconcileScript("found", raw, a, s) :
                  raw \in FetchedIssues, a \in {"db.save_users", "db.save_issues"},
                  s \in RefetchFallbackSyncScripts(w)}

MutationInput(remote, save, rec) == [remote |-> remote, save |-> save, rec |-> rec]

\* the responses of the collaborators to one mutation of issue_id
MutationInputs(w, issue_id) ==
    LET idx == get_issue_by_id(w, issue_id)
    IN {MutationInput(Success, sv, NoScript) : sv \in {"ok", "disk I/O error"}}
       \cup {MutationInput(r, "ok", NoScript) : r \in PlainFailures}
       \cup (IF idx = 0 THEN {}
             ELSE {MutationInput(r, "ok", rec) :
                      r \in ConflictFailures, rec \in ReconcileScripts(w, idx)})

----------------------------------------------------------------------------
(* Initial states and actions *)

Idle == [op |-> "idle"]

\* the part of the store and of the snapshot a call left as it was
Frame(w, w2) ==
    [store_issues |-> w2.db_issues = w.db_issues,
     store_users |-> w2.db_users = w.db_users,
     store_rest |-> /\ w2.db_projects = w.db_projects
                    /\ w2.db_workflow_states = w.db_workflow_states
                    /\ w2.db_sync_history = w.db_sync_history
                    /\ w2.db_seq = w.db_seq,
     users |-> w2.users = w.users]

\* issue or row i is not issue_id, nor the remote issue that issue_id is
\* (the same remote identifier under another key)
IsOther(i, issue_id, linear_id) ==
    /\ i.id # issue_id
    /\ ~(Truthy(linear_id) /\ i.linear_id = linear_id)

\* seq2 is seq, or seq with one element added at its end
GrewByAtMostOne(seq, seq2) ==
    \/ seq2 = seq
    \/ Len(seq2) = Len(seq) + 1 /\ SubSeq(seq2, 1, Len(seq)) = seq

\* what a call on issue_id left as it was, apart from that issue: the other
\* issues, the users, the projects, the workflow states, the sync history
\* and the last-sync fields, in memory and in the store
Untouched(w, w2, issue_id) ==
    With(IssueOf(w, issue_id).linear_id, LAMBDA linear_id :
       [issues |-> SelectSeq(w2.issues, LAMBDA i : IsOther(i, issue_id, linear_id))
                      = SelectSeq(w.issues, LAMBDA i : IsOther(i, issue_id, linear_id)),
        rows |-> SelectSeq(w2.db_issues, LAMBDA i : IsOther(i, issue_id, linear_id))
                    = SelectSeq(w.db_issues, LAMBDA i : IsOther(i, issue_id, linear_id)),
        users |-> GrewByAtMostOne(w.users, w2.users),
        user_rows |-> /\ Range(w.db_users) \subseteq Range(w2.db_users)
                      /\ Cardinality(Range(w2.db_users) \ Range(w.db_users)) <= 1,
        projects |-> w2.projects = w.projects /\ w2.db_projects = w.db_projects,
        workflow_states |->
           /\ w2.workflow_states_by_team = w.workflow_states_by_team
           /\ w2.db_workflow_states = w.db_workflow_states,
        history |->
           /\ w2.sync_history = w.sync_history
           /\ w2.db_sync_history = w.db_sync_history,
        last_sync |->
           /\ w2.last_sync_result = w.last_sync_result
           /\ w2.last_sync_error = w.last_sync_error
           /\ w2.last_sync_at = w.last_sync_at
           /\ w2.sync_diagnostics = w.sync_diagnostics])

\* DataManager() followed by initialize() on a store filled earlier
\* (data.py:12-33): the snapshot is loaded, the last-sync fields are fresh
InitOnStore(stored_users, stored_projects, stored_issues, stored_states, stored_history) ==
    /\ db_users = stored_users
    /\ db_projects = stored_projects
    /\ db_issues = stored_issues
    /\ db_workflow_states = stored_states
    /\ db_sync_history = stored_history
    /\ db_seq = Len(stored_history)
    /\ users = get_users(stored_users)
    /\ projects = get_projects(stored_projects)
    /\ issues = get_issues(stored_issues, stored_users, 0)
    /\ workflow_states_by_team = GroupByTeam(get_workflow_states(stored_states))
    /\ sync_history = get_sync_history(stored_history, HistoryLimit)
    /\ sync_in_progress = FALSE
    /\ last_sync_at = 0
    /\ last_sync_error = NoError
    /\ last_sync_result = "idle"
    /\ sync_diagnostics = EmptyDict
    /\ last_sync_counts = EmptyCounts
    /\ clock = 0
    /\ last = Idle
    /\ calls_made = 0

\* the same on a store that holds no sync attempt yet
InitWith(stored_users, stored_projects, stored_issues, stored_states) ==
    InitOnStore(stored_users, stored_projects, stored_issues, stored_states, <<>>)

Init ==
    /\ InitWith(StoredUsers, StoredProjects, StoredIssues, StoredWorkflowStates)
    /\ linear_status_mappings \in Configs
    /\ api_key \in BOOLEAN
    /\ env_api_key \in BOOLEAN
    /\ faults_left = 0

\* a mutation called with args returned r to the caller
Returned(r, args) ==
    /\ calls_made < MaxCalls
    /\ calls_made' = calls_made + 1
    /\ Becomes(r.w)
    /\ last' = r.o @@ [frame |-> Frame(World, r.w), args |-> args,
                       untouched |-> Untouched(World, r.w, r.o.issue_id)]
    /\ UNCHANGED faults_left

CycleIssueStatus ==
    /\ last = Idle
    /\ \E issue_id \in IssueIds, statuses \in StatusTuples :
         \E in \in MutationInputs(World, issue_id) :
            Returned(cycle_issue_status(World, issue_id, statuses, in), statuses)

CycleIssueAssignee ==
    /\ last = Idle
    /\ \E issue_id \in IssueIds :
         \E in \in MutationInputs(World, issue_id) :
            Returned(cycle_issue_assignee(World, issue_id, in), <<>>)

CycleIssuePoints ==
    /\ last = Idle
    /\ \E issue_id \in IssueIds, step \in {1, 2} :
         \E in \in MutationInputs(World, issue_id) :
            Returned(cycle_issue_points(World, issue_id, step, PointsMaxArg, in),
                     <<step, PointsMaxArg>>)

\* the caller consumes the result and is ready for its next call
Return ==
    /\ last.op \notin {"idle", "sync_running", "fetch_running"}
    /\ last' = Idle
    /\ UNCHANGED <<users, projects, issues, workflow_states_by_team,
                   sync_in_progress, last_sync_at, last_sync_error, last_sync_result,
                   sync_diagnostics, last_sync_counts, sync_history,
                   linear_status_mappings, api_key, env_api_key,
                   db_users, db_projects, db_issues, db_workflow_states,
                   db_sync_history, db_seq, clock, calls_made, faults_left>>

Next ==
    \/ CycleIssueStatus
    \/ CycleIssueAssignee
    \/ CycleIssuePoints
    \/ Return

Spec == Init /\ [][Next]_vars

----------------------------------------------------------------------------
(* Runs of sync attempts on a store with an empty history *)

\* data.py:232-233
dm_get_sync_history(history, limit) ==
    SubSeq(history, 1, IF Len(history) < limit THEN Len(history) ELSE limit)

\* the scripts of a caller-triggered sync in these runs
HistorySyncScripts(w) ==
    {CleanSync,
     SyncScript("none", "", RemoteData, "append"),
     SyncScript("none", "", RemoteData, "read")}
    \cup (IF w.env_api_key
          THEN {SyncScript("linear.get_me", "401", RemoteData, "none"),
                SyncScript("none", "", BrokenData, "none")}
          ELSE {})

InitHistory ==
    /\ InitWith(StoredUsers, StoredProjects, StoredIssues, StoredWorkflowStates)
    /\ linear_status_mappings = EmptyDict
    /\ api_key \in BOOLEAN
    /\ env_api_key = api_key
    /\ faults_left = MaxFaults

\* the observation of a sync that ran on w under script s and ended as r
SyncObservation(w, s, r) ==
    [op |-> "sync", raised |-> r.raised, stop |-> s.stop, hist |-> s.hist,
     broken |-> \E k \in 1..Len(s.data.issues) : ~s.data.issues[k].ok,
     remote_calls |-> r.remote_calls, writes |-> r.writes,
     data |-> s.data,
     frame |-> Frame(w, r.w),
     data_tables_same |-> /\ r.w.db_users = w.db_users
                          /\ r.w.db_projects = w.db_projects
                          /\ r.w.db_issues = w.db_issues
                          /\ r.w.db_workflow_states = w.db_workflow_states,
     pre |-> [users |-> w.users, projects |-> w.projects, issues |-> w.issues,
              db_seq |-> w.db_seq, history_rows |-> Len(w.db_sync_history),
              state_rows |-> Len(w.db_workflow_states),
              workflow_states_by_team |-> w.workflow_states_by_team,
              last_sync_at |-> w.last_sync_at,
              tables |-> [users |-> w.db_users, projects |-> w.db_projects,
                          issues |-> w.db_issues,
                          workflow_states |-> w.db_workflow_states],
              env_api_key |-> w.env_api_key]]

\* the caller runs sync_with_linear (cli.py:55, app.py:95)
SyncWithLinear ==
    /\ last = Idle
    /\ clock < MaxHistorySyncs
    /\ \E s \in HistorySyncScripts(World) :
         /\ s = CleanSync \/ faults_left > 0
         /\ faults_left' = IF s = CleanSync THEN faults_left ELSE faults_left - 1
         /\ \E r \in {sync_with_linear(World, s)} :
               /\ Becomes(r.w)
               /\ last' = SyncObservation(World, s, r)
    /\ UNCHANGED calls_made

NextHistory ==
    \/ SyncWithLinear
    \/ Return

SpecHistory == InitHistory /\ [][NextHistory]_vars

----------------------------------------------------------------------------
(* Properties of the mutations, stated over the call that has just         *)
(* returned (last), the snapshot and the store.                            *)

IsMutation == last.op \in {"status", "assignee", "points"}

\* the remote update was invoked and did not succeed
RemoteFailed == IsMutation /\ last.wrote_through /\ last.remote_kind # "success"

\* the in-memory issue with the id of the call, and its store row, now
Current == IssueOf(World, last.issue_id)
CurrentRow == RowOf(db_issues, last.issue_id)

Prefix(op) ==
    CASE op = "status" -> "Status update failed"
      [] op = "assignee" -> "Assignee update failed"
      [] op = "points" -> "Estimate update failed"

\* part occurs in the message
Contains(message, part) == \E k \in 1..Len(message) : message[k] = part

\* the parts occur in the message one after the other
ContainsSeq(message, parts) ==
    \E k \in 0..(Len(message) - Len(parts)) :
        \A j \in 1..Len(parts) : message[k + j] = parts[j]

\* an issue and a store row agree on status, state id, assignee and points
Agree(issue, row) ==
    /\ issue.status = row.status
    /\ issue.state_id = row.state_id
    /\ issue.assignee.id = row.assignee_id
    /\ issue.points = row.points

\* a conflict-class failure: a structured remote error with code CONFLICT
\* or NOT_FOUND, or with "stale" or "conflict" in its message
ConflictClass(e) ==
    /\ e.api
    /\ \/ e.code \in {"CONFLICT", "NOT_FOUND"}
       \/ e.message \in {"stale issue", "Conflict detected", "Archived issue has a conflict"}

StoreUntouched ==
    last.frame.store_issues /\ last.frame.store_users /\ last.frame.store_rest

\* the targeted refetch ran to its end: getIssue returned an issue and the
\* fetched version was put in memory and persisted
RefetchCompleted == last.got = "found" /\ last.apply_stop = "none"

\* C1 as stated: whenever the remote status mutation fails, in any way, the
\* in-memory issue with that id has its pre-call status and state id.
C1_RollbackOnAnyFailure ==
    (last.op = "status" /\ RemoteFailed)
        => /\ Current.status = last.pre.status
           /\ Current.state_id = last.pre.state_id

\* C1 amended: when the remote status mutation fails and reconciliation
\* replaced nothing (getIssue returned no issue and no fallback sync got as
\* far as its reload), the in-memory issue with that id has its pre-call
\* status and state id; when getIssue returned an issue and no sync reloaded,
\* the in-memory issue with the fetched key is the fetched version.
C1_RollbackUnlessReconciled ==
    (/\ last.op = "status"
     /\ RemoteFailed
     /\ \A k \in 1..Len(last.syncs) : ~last.syncs[k].reached_reload)
        => IF last.got = "found"
           THEN IssueOf(World, last.fetched.id) = last.fetched
           ELSE /\ Current.status = last.pre.status
                /\ Current.state_id = last.pre.state_id

\* a status mutation failed remotely on a conflict-class error, its fallback
\* sync stopped before persisting, and the optimistic status was undone
C1_Witness ==
    /\ last.op = "status"
    /\ RemoteFailed
    /\ Len(last.syncs) = 1
    /\ ~last.syncs[1].reached_reload
    /\ last.target.status # last.pre.status
    /\ Current.status = last.pre.status

\* C2 as stated: when the issue and its store row agreed before the call
\* and the mutation returns failure, the in-memory issue with that id and
\* its store row still agree on status, state id, assignee and points.
C2_FailureKeepsIssueAndStoreInAgreement ==
    (/\ IsMutation
     /\ last.found
     /\ ~last.ok
     /\ Agree(last.pre, last.pre_row)
     /\ get_issue_by_id(World, last.issue_id) # 0)
        => Agree(Current, CurrentRow)

\* C3: when the resolver finds no workflow-state id for the next status,
\* cycleIssueStatus returns (false, "Status update failed: <resolver
\* message>"), calls no remote operation, writes nothing to the store, and
\* the issue keeps its status and state id.
C3_MappingFailureMakesNoCall ==
    (/\ last.op = "status"
     /\ last.found
     /\ last.args # <<>>
     /\ last.target.state_id = None)
        => /\ ~last.ok
           /\ last.message =
                <<"Status update failed", ": ">>
                \o _resolve_state_id_for_status(linear_status_mappings,
                       workflow_states_by_team, last.pre, last.target.status).warning
           /\ Len(last.message) > 2
           /\ last.remote_calls = <<>>
           /\ last.get_issue_calls = <<>> /\ last.syncs = <<>>
           /\ last.writes = <<>> /\ StoreUntouched
           /\ Current = last.pre

\* a status mutation stopped at the resolver, on an issue that has a team
\* with cached states
C3_Witness ==
    /\ last.op = "status"
    /\ last.found
    /\ last.args # <<>>
    /\ last.target.state_id = None
    /\ last.target.status = "Done"
    /\ Truthy(last.pre.team_id)
    /\ ~last.ok

\* C4: when the remote mutation succeeds and the store write of the issue
\* fails, the mutation returns (false, "<prefix>: <store error>"), the
\* in-memory issue is as before the call, and the store row is unchanged.
C4_PersistFailureRollsBack ==
    (/\ IsMutation
     /\ last.wrote_through
     /\ last.remote_kind = "success"
     /\ last.save # "ok")
        => /\ ~last.ok
           /\ last.message = <<Prefix(last.op), ": ", last.save>>
           /\ Current = last.pre
           /\ CurrentRow = last.pre_row
           /\ StoreUntouched
           /\ (Agree(last.pre, last.pre_row) => Agree(Current, CurrentRow))

\* a points mutation was accepted remotely and its store write failed
C4_Witness ==
    /\ last.op = "points"
    /\ last.remote_kind = "success"
    /\ last.save # "ok"
    /\ last.target # last.pre.points
    /\ Current.points = last.pre.points

\* C5: when the remote call raises an error that is not conflict-class or
\* returns a result whose success flag is false or absent, the result is
\* (false, message starting with the prefix), the in-memory issue is as
\* before, the store is not written, and neither getIssue nor a sync ran.
C5_PlainFailureOnlyRollsBack ==
    (RemoteFailed /\ ~ConflictClass(last.exception))
        => /\ ~last.ok
           /\ Head(last.message) = Prefix(last.op)
           /\ Current = last.pre
           /\ last.writes = <<>> /\ StoreUntouched
           /\ last.get_issue_calls = <<>>
           /\ last.syncs = <<>>

\* an assignee mutation was rejected with a permission error by a client
\* that has a credential
C5_Witness ==
    /\ last.op = "assignee"
    /\ RemoteFailed
    /\ last.exception.message = "You don't have permission"
    /\ api_key
    /\ last.target # last.pre.assignee
    /\ Current.assignee = last.pre.assignee


\* a conflict-class failure of the remote update, met by a client with a
\* credential on an issue with a remote identifier, for which getIssue
\* returned an issue
RefetchFound ==
    /\ RemoteFailed
    /\ ConflictClass(last.exception)
    /\ api_key
    /\ Truthy(last.pre.linear_id)
    /\ last.got = "found"

\* what C6 promises of a refetch: failure with the refetch suffix, the
\* fetched version in memory under its key and in place of the first issue
\* with its remote identifier, its assignee among the users, no sync
RefetchApplied ==
    /\ ~last.ok
    /\ last.message = <<Prefix(last.op), ": ">> \o _format_remote_error(last.exception)
                      \o <<" (re-fetched latest issue)">>
    /\ IssueOf(World, last.fetched.id) = last.fetched
    /\ \A k \in 1..Len(issues) :
          (/\ issues[k].linear_id = last.fetched.linear_id
           /\ \A j \in 1..(k - 1) : issues[j].linear_id # last.fetched.linear_id)
              => issues[k] = last.fetched
    /\ last.fetched.assignee # NoUser => last.fetched.assignee \in Range(users)
    /\ last.syncs = <<>>

\* C6 as stated: whenever getIssue returns an issue after a conflict-class
\* failure, the mutation fails with "(re-fetched latest issue)", the fetched
\* version is in memory, a new assignee is among the users, no sync starts.
C6_RefetchAlwaysApplied == RefetchFound => RefetchApplied

\* C6 amended: when getIssue returns an issue after a conflict-class failure
\* and the store writes of the refetch (users, then the issue) succeed, the
\* mutation fails with "(re-fetched latest issue)", the fetched version is
\* in memory and in the store, a new assignee is among the users, and no
\* sync starts.
C6_RefetchAppliedWhenPersisted ==
    (RefetchFound /\ last.apply_stop = "none")
        => /\ RefetchApplied
           /\ Agree(last.fetched, RowOf(db_issues, last.fetched.id))
           /\ last.writes = <<"users", "issues">>

\* a points mutation met a conflict and the refetch brought estimate 8 and
\* an assignee unknown before
C6_Witness ==
    /\ last.op = "points"
    /\ RefetchFound
    /\ last.apply_stop = "none"
    /\ last.fetched.points = 8
    /\ last.target # 8 /\ last.pre.points # 8
    /\ ~last.frame.users
    /\ Current.points = 8

\* C7: in a reconciliation a full sync is attempted iff the targeted
\* refetch did not complete; the message ends with "(triggered full
\* re-sync)" exactly when that sync ended with result success, has no
\* suffix when refetch and sync both fail, and always holds the classified
\* reason of the original failure; the result is failure.
C7_SyncIffRefetchIncomplete ==
    (RemoteFailed /\ last.reconciled)
        => LET reason == <<Prefix(last.op), ": ">> \o _format_remote_error(last.exception)
               synced == last.syncs # <<>> /\ last.syncs[1].result = "success"
           IN /\ Len(last.syncs) <= 1
              /\ (last.syncs # <<>>) <=> ~RefetchCompleted
              /\ RefetchCompleted <=> (/\ Truthy(last.pre.linear_id)
                                       /\ last.got = "found"
                                       /\ last.apply_stop = "none")
              /\ Contains(last.message, " (triggered full re-sync)") <=> synced
              /\ synced => last.message = reason \o <<" (triggered full re-sync)">>
              /\ (~RefetchCompleted /\ ~synced) => last.message = reason
              /\ SubSeq(last.message, 1, Len(reason)) = reason
              /\ ~last.ok

\* a reconciliation whose refetch raised at its store write and whose
\* fallback sync then succeeded
C7_Witness ==
    /\ RemoteFailed /\ last.reconciled
    /\ last.got = "found"
    /\ last.apply_stop = "db.save_issues"
    /\ Len(last.syncs) = 1
    /\ last.syncs[1].result = "success"
    /\ Contains(last.message, " (triggered full re-sync)")

\* C8: the three mutations always return a (bool, message) result and never
\* raise, whatever fails among the remote update, getIssue, the full sync
\* (one that re-raises an unexpected exception included) and the store
\* writes.
C8_MutationsNeverRaise ==
    IsMutation => /\ ~last.raised
                  /\ last.ok \in BOOLEAN
                  /\ last.message # <<>>

\* a mutation returned although its fallback sync re-raised an unexpected
\* exception
C8_Witness ==
    /\ IsMutation
    /\ Len(last.syncs) = 1
    /\ last.syncs[1].raised
    /\ ~last.ok

\* the status after current in the cycle statuses (the first when current
\* is not in it)
NextInCycle(statuses, current) ==
    IF \E k \in 1..Len(statuses) : statuses[k] = current
    THEN LET k == CHOOSE j \in 1..Len(statuses) :
                     statuses[j] = current /\ \A i \in 1..(j - 1) : statuses[i] # current
         IN statuses[(k % Len(statuses)) + 1]
    ELSE statuses[1]

\* C9: when the next status resolves to a workflow-state id, the remote
\* update reports success and the store write succeeds, cycleIssueStatus
\* returns (true, "<issue id> moved to <next status>..."), the in-memory
\* issue and its store row have the next status and the resolved id, and
\* the remote update was invoked exactly once, with the remote identifier
\* (the human key when there is none) and that state id.
C9_StatusSuccessWritesThrough ==
    (/\ last.op = "status"
     /\ last.found
     /\ last.args # <<>>
     /\ last.target.state_id # None
     /\ last.remote_kind = "success"
     /\ last.save = "ok")
        => /\ last.ok
           /\ SubSeq(last.message, 1, 3) = <<last.issue_id, " moved to ", last.target.status>>
           /\ last.target.status = NextInCycle(last.args, last.pre.status)
           /\ \E st \in Range(TeamStates(workflow_states_by_team, last.pre)) :
                 st.id = last.target.state_id
           /\ Current.status = last.target.status
           /\ Current.state_id = last.target.state_id
           /\ last.remote_calls =
                <<[op |-> "update_issue_status",
                   id |-> IF last.pre.linear_id # None THEN last.pre.linear_id
                          ELSE last.issue_id,
                   arg |-> last.target.state_id]>>
           /\ CurrentRow.status = last.target.status
           /\ CurrentRow.state_id = last.target.state_id
           /\ last.writes = <<"issues">>

\* a status mutation of an issue without remote identifier went through
C9_Witness ==
    /\ last.op = "status"
    /\ last.ok
    /\ last.pre.linear_id = None
    /\ last.remote_calls # <<>>
    /\ last.remote_calls[1].id = last.issue_id
    /\ Current.status # last.pre.status
    /\ CurrentRow.state_id = last.target.state_id

----------------------------------------------------------------------------
(* Properties of the sync history, over runs of sync attempts: clock is    *)
(* the number of attempts made, and an attempt is recorded with the clock  *)
(* of its start as created_at.                                             *)

getSyncHistory == dm_get_sync_history(sync_history, HistoryLimit)

Min(a, b) == IF a < b THEN a ELSE b

\* h is the most recent Min(clock, 20) attempts, most recent first
MostRecentFirst(h) ==
    /\ Len(h) = Min(clock, 20)
    /\ \A k \in 1..Len(h) : h[k].created_at = clock - k + 1

----------------------------------------------------------------------------
(* Runs of syncs that stop at any step of the pipeline *)

\* sync attempts in a pipeline run
MaxSyncs == 2

\* the text of the exception a call of the pipeline raises
StopError(stop) ==
    IF stop \in {"linear.get_me", "linear.get_projects",
                 "linear.get_team_workflow_states", "linear.get_issues"}
    THEN "rate limit" ELSE "disk I/O error"

\* the scripts of a caller-triggered sync: every call of the pipeline may
\* be the one that raises, the fetched issues may be malformed, and the
\* store may reject the history append or the read that follows it.
\* Without a credential no collaborator but the history store is called.
PipelineSyncScripts(w) ==
    IF CredentialMissing(w)
    THEN {SyncScript("none", "", RemoteData, h) : h \in {"none", "append", "read"}}
    ELSE {SyncScript(stop, StopError(stop), RemoteData, "none") :
             stop \in SyncStops \cup {"none"}}
         \cup {SyncScript("none", "", BrokenData, h) : h \in {"none", "append", "read"}}
         \cup {SyncScript("none", "", StatelessData, "none")}
         \cup {SyncScript(stop, StopError(stop), RemoteData, h) :
                  stop \in {"none", "linear.get_projects", "db.save_issues"},
                  h \in {"append", "read"}}

InitSync ==
    /\ InitWith(StoredUsers, StoredProjects, StoredIssues, StoredWorkflowStates)
    /\ linear_status_mappings = EmptyDict
    /\ api_key \in BOOLEAN
    /\ env_api_key = api_key
    /\ faults_left = 0

\* the caller runs sync_with_linear (cli.py:55, app.py:95) and the
\* collaborators answer as one of the scripts says
SyncAnyOutcome ==
    /\ last = Idle
    /\ clock < MaxSyncs
    /\ \E s \in PipelineSyncScripts(World) :
         \E r \in {sync_with_linear(World, s)} :
            /\ Becomes(r.w)
            /\ last' = SyncObservation(World, s, r)
    /\ UNCHANGED <<calls_made, faults_left>>

NextSync ==
    \/ SyncAnyOutcome
    \/ Return

SpecSync == InitSync /\ [][NextSync]_vars

----------------------------------------------------------------------------
(* Properties of the sync pipeline, stated over the sync that has just     *)
(* returned to the caller (last), the engine's fields and the store.       *)

IsSync == last.op = "sync"

\* the rows the persisted history gained since the sync started
NewHistoryRows == {r \in Range(db_sync_history) : r.id > last.pre.db_seq}

\* the persisted history gained exactly one row, and it holds the engine's
\* last-sync result and diagnostics
OneAttemptRecorded ==
    /\ Cardinality(NewHistoryRows) = 1
    /\ \A r \in NewHistoryRows :
          /\ r.result = last_sync_result
          /\ r.diagnostics = sync_diagnostics

C13_NoCredentialFailsAtAuth ==
    (IsSync /\ ~last.pre.env_api_key) =>
       /\ last_sync_result = "failed"
       /\ last_sync_error = <<"LINEAR_API_KEY not set">>
       /\ sync_diagnostics = [k \in {"auth"} |-> <<"failed: ", "LINEAR_API_KEY not set">>]
       /\ last.remote_calls = <<>>
       /\ last.writes \in {<<>>, <<"sync_history">>}
       /\ last.data_tables_same
       /\ users = last.pre.users
       /\ projects = last.pre.projects
       /\ issues = last.pre.issues
       /\ ~last.raised

\* a sync without credential returned, with a non-empty snapshot in memory
C13_Witness ==
    /\ IsSync
    /\ ~last.pre.env_api_key
    /\ last_sync_result = "failed"
    /\ issues # <<>>
    /\ users # <<>>

\* the steps of the pipeline in their order, and the remote calls and the
\* store writes of the pipeline in theirs
StepOrder == <<"auth", "projects", "workflow_states", "issues", "persist", "reload">>
FetchOrder == <<"get_me", "get_projects", "get_team_workflow_states", "get_issues">>
WriteOrder == <<"users", "projects", "issues", "workflow_states">>

RecordedSteps == (DOMAIN sync_diagnostics) \ {"unexpected"}
StepsDone == Cardinality(RecordedSteps)
StepIsOk(step) == sync_diagnostics[step][1] \in {"ok", "ok: "}
StepIsFailed(step) == sync_diagnostics[step][1] = "failed: "
LastRecordedStep ==
    IF "unexpected" \in DOMAIN sync_diagnostics THEN "unexpected" ELSE StepOrder[StepsDone]

\* the store writes of the pipeline proper (the history append left out)
PipelineWrites == SelectSeq(last.writes, LAMBDA t : t # "sync_history")

\* C14: at the end of a sync the recorded steps are a prefix of auth,
\* projects, workflow_states, issues, persist, reload (possibly followed by
\* "unexpected"); every recorded step but the last is ok; the result is
\* failed exactly when the last recorded step failed and success exactly
\* when all six steps are ok; the remote calls made are those of the
\* recorded steps and no more, and a store write of the pipeline happens
\* only when the persist step was reached, all four when it is ok.
C14_PipelineSequentialAbortOnFirstFailure ==
    IsSync =>
       /\ StepsDone >= 1
       /\ RecordedSteps = {StepOrder[k] : k \in 1..StepsDone}
       /\ \A step \in DOMAIN sync_diagnostics :
             step # LastRecordedStep => StepIsOk(step)
       /\ StepIsOk(LastRecordedStep) \/ StepIsFailed(LastRecordedStep)
       /\ last_sync_result = "failed" <=> StepIsFailed(LastRecordedStep)
       /\ last_sync_result = "success" <=>
             /\ DOMAIN sync_diagnostics = Range(StepOrder)
             /\ \A step \in Range(StepOrder) : StepIsOk(step)
       /\ last_sync_result \in {"success", "failed"}
       /\ last.remote_calls =
             SubSeq(FetchOrder, 1,
                    IF ~last.pre.env_api_key THEN 0
                    ELSE IF StepsDone < 4 THEN StepsDone ELSE 4)
       /\ \E n \in 0..4 : PipelineWrites = SubSeq(WriteOrder, 1, n)
       /\ PipelineWrites # <<>> => "persist" \in RecordedSteps
       /\ ("persist" \in RecordedSteps /\ StepIsOk("persist")) <=>
             PipelineWrites = WriteOrder
       /\ ("persist" \in RecordedSteps /\ StepIsFailed("persist")) =>
             Len(PipelineWrites) < 4

\* a sync stopped at the fetch of the workflow states: three steps are
\* recorded, three remote calls were made, nothing was written
C14_Witness ==
    /\ IsSync
    /\ last.stop = "linear.get_team_workflow_states"
    /\ StepsDone = 3
    /\ StepIsFailed("workflow_states")
    /\ Len(last.remote_calls) = 3
    /\ PipelineWrites = <<>>

\* an exception that no step of the pipeline handles occurred: building
\* the entities from the fetched data raised
UnexpectedException == IsSync /\ last.pre.env_api_key /\ last.broken /\ last.stop = "none"

\* what the engine holds when the unexpected exception reaches the caller
UnexpectedRecorded ==
    /\ last.raised
    /\ last_sync_result = "failed"
    /\ "unexpected" \in DOMAIN sync_diagnostics
    /\ StepIsFailed("unexpected")
    /\ ~sync_in_progress

----------------------------------------------------------------------------
(* sync_with_linear as the coroutine it is: one step per awaited call.     *)
(* Between two awaits the event loop may run other callbacks (the status   *)
(* bar calls sync_status_summary, app.py:211), so the fields are visible   *)
(* at every await.  pc names the call the coroutine is suspended on; the   *)
(* script s says, as before, which call raises.                            *)

\* syncs in a stepwise run
MaxStepSyncs == 1

\* data.py:224-227
sync_status_summary(w) ==
    IF w.sync_in_progress THEN <<"syncing">> ELSE _sync_status_summary_core(w)

\* where the coroutine is suspended next: on call pc, with the exception
\* that will reach the caller once the finally clause is through
Suspended(w, pc, raised) == [w |-> w, pc |-> pc, raised |-> raised]

\* data.py:215-222: the coroutine left the finally clause
Finished(w, raised) == Suspended([w EXCEPT !.sync_in_progress = FALSE], "done", raised)

\* data.py:220-221, 532-535: the finally clause is entered; the result is
\* never "syncing" there without an exception of another kind, and then
\* nothing is recorded
EnterFinally(w, raised) ==
    IF w.last_sync_result = "syncing" THEN Finished(w, raised)
    ELSE Suspended(w, "history.append", raised)

\* sync_begin that leaves the in-progress flag as it is
sync_begin_without_flag(w, s) ==
    With([w EXCEPT !.last_sync_error = NoError,
                   !.last_sync_result = "syncing",
                   !.sync_diagnostics = EmptyDict,
                   !.last_sync_counts = EmptyCounts,
                   !.clock = @ + 1],
         LAMBDA started :
            IF CredentialMissing(started)
            THEN EnterFinally(StepFailed(started, <<"LINEAR_API_KEY not set">>, "auth",
                                         "LINEAR_API_KEY not set"), FALSE)
            ELSE Suspended(started, "linear.get_me", FALSE))

\* data.py:88-105: from the call to the first await
sync_begin(w, s) ==
    With([w EXCEPT !.sync_in_progress = TRUE,
                   !.last_sync_error = NoError,
                   !.last_sync_result = "syncing",
                   !.sync_diagnostics = EmptyDict,
                   !.last_sync_counts = EmptyCounts,
                   !.clock = @ + 1],
         LAMBDA started :
            IF CredentialMissing(started)
            THEN EnterFinally(StepFailed(started, <<"LINEAR_API_KEY not set">>, "auth",
                                         "LINEAR_API_KEY not set"), FALSE)
            ELSE Suspended(started, "linear.get_me", FALSE))

\* data.py:105-222, 532-546: the awaited call pc returns, or raises when
\* the script says so, and the coroutine runs to its next await
sync_resume(w, pc, raised, s) ==
    With(s.data, LAMBDA d :
    With(UsersDict(d.issues, <<>>), LAMBDA users_dict :
    With([k \in 1..Len(d.issues) |-> IssueOfRaw(d.issues[k], users_dict, w.clock)], LAMBDA built :
    With([k \in 1..Len(d.projects) |-> ProjectOfRaw(d.projects[k], built)],
         LAMBDA built_projects :
    With([StepOk(w, "issues", <<"ok: ", Str(Len(d.issues))>>)
             EXCEPT !.workflow_states_by_team = _cache_workflow_states(d.teams)],
         LAMBDA wCache :
    With(StepOk([w EXCEPT !.sync_history =
                     get_sync_history(w.db_sync_history, HistoryLimit)],
                "reload", <<"ok">>),
         LAMBDA wReload :
       CASE pc = "linear.get_me" ->
              IF s.stop = pc
              THEN EnterFinally(StepFailed(w, <<"auth failed: ", s.e>>, "auth", s.e), FALSE)
              ELSE Suspended(StepOk(w, "auth", <<"ok: ", d.viewer>>),
                             "linear.get_projects", FALSE)
         [] pc = "linear.get_projects" ->
              IF s.stop = pc
              THEN EnterFinally(StepFailed(w, <<"projects fetch failed: ", s.e>>,
                                           "projects", s.e), FALSE)
              ELSE Suspended(StepOk(w, "projects", <<"ok: ", Str(Len(d.projects))>>),
                             "linear.get_team_workflow_states", FALSE)
         [] pc = "linear.get_team_workflow_states" ->
              IF s.stop = pc
              THEN EnterFinally(StepFailed(w, <<"workflow states fetch failed: ", s.e>>,
                                           "workflow_states", s.e), FALSE)
              ELSE Suspended(StepOk(w, "workflow_states",
                                    <<"ok: ", Str(Len(d.teams)), " teams">>),
                             "linear.get_issues", FALSE)
         [] pc = "linear.get_issues" ->
              IF s.stop = pc
              THEN EnterFinally(StepFailed(w, <<"issues fetch failed: ", s.e>>,
                                           "issues", s.e), FALSE)
              ELSE IF \E k \in 1..Len(d.issues) : ~d.issues[k].ok
              THEN EnterFinally(StepFailed(wCache, <<"KeyError">>, "unexpected", "KeyError"),
                                TRUE)
              ELSE Suspended(wCache, "db.save_users", FALSE)
         [] pc = "db.save_users" ->
              IF s.stop = pc
              THEN EnterFinally(StepFailed(w, <<"persist failed: ", s.e>>, "persist", s.e),
                                FALSE)
              ELSE Suspended([w EXCEPT !.db_users = save_users(@, users_dict)],
                             "db.save_projects", FALSE)
         [] pc = "db.save_projects" ->
              IF s.stop = pc
              THEN EnterFinally(StepFailed(w, <<"persist failed: ", s.e>>, "persist", s.e),
                                FALSE)
              ELSE Suspended([w EXCEPT !.db_projects = save_projects(@, built_projects)],
                             "db.save_issues", FALSE)
         [] pc = "db.save_issues" ->
              IF s.stop = pc
              THEN EnterFinally(StepFailed(w, <<"persist failed: ", s.e>>, "persist", s.e),
                                FALSE)
              ELSE Suspended([w EXCEPT !.db_issues = save_issues(@, built, None)],
                             "db.save_workflow_states", FALSE)
         [] pc = "db.save_workflow_states" ->
              IF s.stop = pc
              THEN EnterFinally(StepFailed(w, <<"persist failed: ", s.e>>, "persist", s.e),
                                FALSE)
              ELSE Suspended(StepOk([w EXCEPT !.db_workflow_states =
                                        save_workflow_states(@,
                                            _flatten_workflow_states(w.workflow_states_by_team))],
                                    "persist", <<"ok">>),
                             "db.get_users", FALSE)
         [] pc = "db.get_users" ->
              IF s.stop = pc
              THEN EnterFinally(StepFailed(w, <<"reload failed: ", s.e>>, "reload", s.e),
                                FALSE)
              ELSE Suspended([w EXCEPT !.users = get_users(w.db_users)],
                             "db.get_projects", FALSE)
         [] pc = "db.get_projects" ->
              IF s.stop = pc
              THEN EnterFinally(StepFailed(w, <<"reload failed: ", s.e>>, "reload", s.e),
                                FALSE)
              ELSE Suspended([w EXCEPT !.projects = get_projects(w.db_projects)],
                             "db.get_issues", FALSE)
         [] pc = "db.get_issues" ->
              IF s.stop = pc
              THEN EnterFinally(StepFailed(w, <<"reload failed: ", s.e>>, "reload", s.e),
                                FALSE)
              ELSE Suspended([w EXCEPT !.issues = get_issues(w.db_issues, w.db_users, w.clock)],
                             "db.get_workflow_states", FALSE)
         [] pc = "db.get_workflow_states" ->
              IF s.stop = pc
              THEN EnterFinally(StepFailed(w, <<"reload failed: ", s.e>>, "reload", s.e),
                                FALSE)
              ELSE Suspended([w EXCEPT !.workflow_states_by_team =
                                 GroupByTeam(get_workflow_states(w.db_workflow_states))],
                             "db.get_sync_history", FALSE)
         [] pc = "db.get_sync_history" ->
              IF s.stop = pc
              THEN EnterFinally(StepFailed(w, <<"reload failed: ", s.e>>, "reload", s.e),
                                FALSE)
              ELSE EnterFinally(
                      [wReload EXCEPT
                          !.last_sync_counts =
                              [k \in {"users", "projects", "issues", "teams"} |->
                                  CASE k = "users" -> Len(wReload.users)
                                    [] k = "projects" -> Len(wReload.projects)
                                    [] k = "issues" -> Len(wReload.issues)
                                    [] k = "teams" ->
                                         Cardinality(DOMAIN wReload.workflow_states_by_team)],
                          !.last_sync_at = w.clock,
                          !.last_sync_result = "success"],
                      FALSE)
         [] pc = "history.append" ->
              IF s.hist = "append" THEN Finished(w, raised)
              ELSE Suspended([w EXCEPT !.db_sync_history =
                                  append_sync_history(@, w.db_seq + 1, w.clock,
                                      w.last_sync_result, _sync_status_summary_core(w),
                                      w.sync_diagnostics, MaxEntries),
                                       !.db_seq = @ + 1],
                             "history.read", raised)
         [] pc = "history.read" ->
              IF s.hist = "read" THEN Finished(w, raised)
              ELSE Finished([w EXCEPT !.sync_history =
                                get_sync_history(w.db_sync_history, HistoryLimit)],
                            raised)))))))

\* the coroutine at an await: the call it waits for, the script, and, for
\* the comparison with the call as a whole, the world it started from
Running(p, s, start) ==
    [op |-> IF p.pc = "done" THEN "sync_done" ELSE "sync_running",
     pc |-> p.pc, raised |-> p.raised, script |-> s, start |-> start]

\* the caller starts a sync (cli.py:55, app.py:95)
SyncBegin ==
    /\ last = Idle
    /\ clock < MaxStepSyncs
    /\ \E s \in PipelineSyncScripts(World) :
         \E p \in {sync_begin(World, s)} :
            /\ Becomes(p.w)
            /\ last' = Running(p, s, World)
    /\ UNCHANGED <<calls_made, faults_left>>

\* the call the coroutine waits for returns or raises
SyncResume ==
    /\ last.op = "sync_running"
    /\ \E p \in {sync_resume(World, last.pc, last.raised, last.script)} :
          /\ Becomes(p.w)
          /\ last' = Running(p, last.script, last.start)
    /\ UNCHANGED <<calls_made, faults_left>>

NextSteps ==
    \/ SyncBegin
    \/ SyncResume
    \/ Return

\* every awaited call returns or raises
SpecSteps == InitSync /\ [][NextSteps]_vars /\ WF_vars(SyncResume)

\* the steps of the coroutine add up to the call taken as a whole
StepsAgreeWithCall ==
    last.op = "sync_done" =>
        With(sync_with_linear(last.start, last.script), LAMBDA r :
            /\ World = r.w
            /\ last.raised = r.raised)

\* C12: with callers serialized, from the start of a sync to its end the
\* in-progress flag is set and sync_status_summary() is "syncing"; when the
\* sync has returned or raised the flag is cleared; and every sync whose
\* awaited calls each return or raise reaches its end.
C12_FlagSetExactlyWhileSyncRuns ==
    /\ [](last.op = "sync_running" =>
             sync_in_progress /\ sync_status_summary(World) = <<"syncing">>)
    /\ [](last.op \in {"sync_done", "idle"} => ~sync_in_progress)
    /\ (last.op = "sync_running" ~> (last.op = "sync_done" /\ ~sync_in_progress))

\* a sync failed at a fetch and is suspended in its finally clause: the
\* result is already failed, the summary still says syncing
C12_Witness ==
    /\ last.op = "sync_running"
    /\ last.pc = "history.append"
    /\ last_sync_result = "failed"
    /\ sync_in_progress
    /\ sync_status_summary(World) = <<"syncing">>

----------------------------------------------------------------------------
(* Saving a snapshot to the store and loading it again *)

\* issues as the engine or its user may hold them, every field set
IssueA ==
    [id |-> "X-1", linear_id |-> "lin-1", title |-> "Task", priority |-> "2",
     due_date |-> "2024-03-01", status |-> "In Progress", state_id |-> "state-2",
     team_id |-> "team-1", assignee |-> Alice, points |-> 3, project_id |-> "p1",
     description |-> None, created_at |-> 0]
IssueB ==
    [id |-> "X-3", linear_id |-> None, title |-> "Draft", priority |-> "0",
     due_date |-> None, status |-> "Todo", state_id |-> None,
     team_id |-> None, assignee |-> NoUser, points |-> 0, project_id |-> None,
     description |-> "Steps to reproduce", created_at |-> 0]
IssueC ==
    [id |-> "X-4", linear_id |-> "lin-4", title |-> "Review", priority |-> "1",
     due_date |-> None, status |-> "Done", state_id |-> "state-9",
     team_id |-> "team-2", assignee |-> Carol, points |-> 5, project_id |-> "p1",
     description |-> None, created_at |-> 0]

ProjectP ==
    [id |-> "p1", name |-> "Acme", status |-> "Planned", issues_count |-> 2,
     in_progress_count |-> 1, blocked_count |-> 0, due_date |-> "2024-06-30",
     cycle |-> "Current"]
ProjectQ ==
    [id |-> "p2", name |-> "Tools", status |-> "Active", issues_count |-> 0,
     in_progress_count |-> 0, blocked_count |-> 0, due_date |-> "N/A",
     cycle |-> "Current"]

\* the snapshots a round trip starts from: every issue's assignee is one
\* of the users, identifiers are unique
Snapshots ==
    {snap \in
        {[users |-> us, projects |-> ps, issues |-> is, states |-> sts] :
            us \in {<<Alice>>, <<Alice, Carol>>, <<Carol, Alice>>},
            ps \in {<<>>, <<ProjectP>>, <<ProjectQ, ProjectP>>},
            is \in {<<>>, <<IssueA>>, <<IssueB>>, <<IssueB, IssueA>>,
                    <<IssueA, IssueC>>, <<IssueC, IssueB, IssueA>>},
            sts \in {<<>>, StoredWorkflowStates}} :
        \A k \in 1..Len(snap.issues) :
            snap.issues[k].assignee # NoUser
                => snap.issues[k].assignee \in Range(snap.users)}

\* a DataManager just constructed over the store of w (data.py:12-27)
NewDataManager(w) ==
    [w EXCEPT !.users = <<>>, !.projects = <<>>, !.issues = <<>>,
              !.workflow_states_by_team = EmptyDict,
              !.sync_in_progress = FALSE, !.last_sync_at = 0,
              !.last_sync_error = NoError, !.last_sync_result = "idle",
              !.sync_diagnostics = EmptyDict, !.last_sync_counts = EmptyCounts,
              !.sync_history = <<>>]

\* the four saves of a snapshot, as data.py:188-192 and the tests issue them
SaveSnapshot(w) ==
    [w EXCEPT !.db_users = save_users(@, w.users),
              !.db_projects = save_projects(@, w.projects),
              !.db_issues = save_issues(@, w.issues, None),
              !.db_workflow_states =
                  save_workflow_states(@, _flatten_workflow_states(w.workflow_states_by_team))]

\* an engine holding a snapshot, over a store that is empty or holds what
\* an earlier run left
InitRoundTrip ==
    /\ \E snap \in Snapshots :
          /\ users = snap.users
          /\ projects = snap.projects
          /\ issues = snap.issues
          /\ workflow_states_by_team = GroupByTeam(snap.states)
    /\ \E earlier \in BOOLEAN :
          /\ db_users = IF earlier THEN StoredUsers ELSE <<>>
          /\ db_projects = IF earlier THEN StoredProjects ELSE <<>>
          /\ db_issues = IF earlier THEN StoredIssues ELSE <<>>
          /\ db_workflow_states = IF earlier THEN StoredWorkflowStates ELSE <<>>
    /\ db_sync_history = <<>>
    /\ db_seq = 0
    /\ sync_history = <<>>
    /\ sync_in_progress = FALSE
    /\ last_sync_at = 0
    /\ last_sync_error = NoError
    /\ last_sync_result = "idle"
    /\ sync_diagnostics = EmptyDict
    /\ last_sync_counts = EmptyCounts
    /\ linear_status_mappings = EmptyDict
    /\ api_key = TRUE
    /\ env_api_key = TRUE
    /\ clock = 0
    /\ last = Idle
    /\ calls_made = 0
    /\ faults_left = 0

\* the snapshot is saved
SaveAll ==
    /\ last = Idle
    /\ Becomes(SaveSnapshot(World))
    /\ last' = [op |-> "saved",
                saved |-> [users |-> users, projects |-> projects, issues |-> issues,
                           workflow_states_by_team |-> workflow_states_by_team],
                earlier |-> [users |-> {r.id : r \in Range(db_users)},
                             projects |-> {r.id : r \in Range(db_projects)},
                             issues |-> {r.id : r \in Range(db_issues)}]]
    /\ UNCHANGED <<calls_made, faults_left>>

\* the engine that saved loads the snapshot again, at once or later
ReloadSameEngine ==
    /\ last.op = "saved"
    /\ \E now \in {clock, clock + 1} :
          /\ Becomes(load_from_cache([World EXCEPT !.clock = now], "none").w)
          /\ last' = [last EXCEPT !.op = "reloaded"] @@ [restarted |-> FALSE, now |-> now]
    /\ UNCHANGED <<calls_made, faults_left>>

\* the process is restarted: a new engine with a new store handle on the
\* same durable data loads the snapshot
ReloadAfterRestart ==
    /\ last.op = "saved"
    /\ \E now \in {clock, clock + 1} :
          /\ Becomes(load_from_cache(NewDataManager([World EXCEPT !.clock = now]), "none").w)
          /\ last' = [last EXCEPT !.op = "reloaded"] @@ [restarted |-> TRUE, now |-> now]
    /\ UNCHANGED <<calls_made, faults_left>>

NextRoundTrip ==
    \/ SaveAll
    \/ ReloadSameEngine
    \/ ReloadAfterRestart

SpecRoundTrip == InitRoundTrip /\ [][NextRoundTrip]_vars

----------------------------------------------------------------------------
(* Properties of the round trip *)

Reloaded == last.op = "reloaded"

AllStates(wsbt) == UNION {Range(wsbt[t]) : t \in DOMAIN wsbt}

\* C16 as stated: the reloaded users, projects, issues and workflow states
\* are the saved ones, field for field, for every field of the data model.
C16_RoundTripFieldForField ==
    Reloaded =>
       /\ Range(users) = Range(last.saved.users)
       /\ Range(projects) = Range(last.saved.projects)
       /\ Range(issues) = Range(last.saved.issues)
       /\ AllStates(workflow_states_by_team) = AllStates(last.saved.workflow_states_by_team)

\* the fields of an issue that the issues table holds
PersistedFields(i) == [f \in (DOMAIN i) \ {"description", "created_at"} |-> i[f]]

\* what the round trip does keep: the reloaded workflow states are the saved
\* ones; every saved user and project is reloaded equal in every field;
\* every saved issue is reloaded equal in every field that the issues table
\* holds, with description null and the creation timestamp of the load; and
\* nothing else is reloaded when the store held no row of another key.
RoundTripOnPersistedFields ==
    Reloaded =>
       /\ workflow_states_by_team = last.saved.workflow_states_by_team
       /\ Range(last.saved.users) \subseteq Range(users)
       /\ Range(last.saved.projects) \subseteq Range(projects)
       /\ \A i \in Range(last.saved.issues) :
             \E j \in Range(issues) : PersistedFields(j) = PersistedFields(i)
       /\ \A j \in Range(issues) : j.description = None /\ j.created_at = last.now
       /\ last.earlier.users \subseteq {u.id : u \in Range(last.saved.users)}
             => Range(users) = Range(last.saved.users)
       /\ last.earlier.projects \subseteq {p.id : p \in Range(last.saved.projects)}
             => Range(projects) = Range(last.saved.projects)
       /\ last.earlier.issues \subseteq {i.id : i \in Range(last.saved.issues)}
             => {PersistedFields(j) : j \in Range(issues)}
                   = {PersistedFields(i) : i \in Range(last.saved.issues)}

----------------------------------------------------------------------------
(* Runs that mix load_from_cache, sync_with_linear and the three mutations *)

\* operations of the caller in a mixed run
MaxOps == 3

\* the scripts of a sync in a mixed run: it succeeds, a fetched issue is
\* malformed, a fetch raises, a store write raises, a reload read raises
\* after the users were read, or the store rejects the history append or
\* the history read that follows it
OpsSyncScripts(w) ==
    IF CredentialMissing(w) THEN {CleanSync}
    ELSE {CleanSync,
          SyncScript("none", "", BrokenData, "none"),
          SyncScript("linear.get_issues", "rate limit", RemoteData, "none"),
          SyncScript("db.save_issues", "disk I/O error", RemoteData, "none"),
          SyncScript("db.get_projects", "disk I/O error", RemoteData, "none"),
          SyncScript("none", "", RemoteData, "append"),
          SyncScript("linear.get_issues", "rate limit", RemoteData, "append"),
          SyncScript("none", "", RemoteData, "read")}

\* the responses of the collaborators to one mutation in a mixed run: the
\* update succeeds (the store write too, or not), fails plainly, or fails
\* with a conflict that is reconciled by a refetch or by a full sync
OpsMutationInputs(w, issue_id) ==
    LET idx == get_issue_by_id(w, issue_id)
    IN {MutationInput(Success, sv, NoScript) : sv \in {"ok", "disk I/O error"}}
       \cup {MutationInput(Raise(OtherError("network")), "ok", NoScript)}
       \cup (IF idx = 0 \/ ~w.api_key \/ ~Truthy(w.issues[idx].linear_id) THEN {}
             ELSE {MutationInput(Raise(ApiError("stale issue", "CONFLICT", None)), "ok", rec) :
                      rec \in {ReconcileScript("null", RawFresh, "none", CleanSync),
                               ReconcileScript("found", RawFresh, "none", CleanSync)}
                              \cup {ReconcileScript("found", RawFresh, "db.save_users", s) :
                                       s \in RefetchFallbackSyncScripts(w)}})

\* the attempts of earlier sessions: one fewer than the store keeps
StoredHistory ==
    [k \in 1..(MaxEntries - 1) |->
        [id |-> k, created_at |-> 0, result |-> "failed",
         summary |-> <<"failed: ", "LINEAR_API_KEY not set">>,
         diagnostics |-> DictSet(EmptyDict, "auth", <<"failed: ", "LINEAR_API_KEY not set">>)]]

InitOps ==
    /\ InitOnStore(StoredUsers, StoredProjects, StoredIssues, StoredWorkflowStates,
                   StoredHistory)
    /\ linear_status_mappings = EmptyDict
    /\ api_key = TRUE
    /\ env_api_key \in BOOLEAN
    /\ faults_left = 0

\* the caller may start one more operation
OpsReady ==
    /\ last = Idle
    /\ calls_made < MaxOps
    /\ calls_made' = calls_made + 1
    /\ UNCHANGED faults_left

\* a mutation called with args returned r to the caller
OpsReturned(r, args) ==
    /\ Becomes(r.w)
    /\ last' = r.o @@ [frame |-> Frame(World, r.w), args |-> args]

\* load_from_cache, as initialize and a restart run it (data.py:29-33);
\* one of its store reads may raise
LoadFromCache ==
    /\ OpsReady
    /\ \E stop \in {"none", "db.get_projects", "db.get_sync_history"} :
         \E r \in {load_from_cache(World, stop)} :
            /\ Becomes(r.w)
            /\ last' = [op |-> "load", raised |-> r.raised, changed |-> r.w # World,
                        pre |-> World]

OpsSync ==
    /\ OpsReady
    /\ \E s \in OpsSyncScripts(World) :
         \E r \in {sync_with_linear(World, s)} :
            /\ Becomes(r.w)
            /\ last' = SyncObservation(World, s, r)

OpsCycleIssueStatus ==
    /\ OpsReady
    /\ \E issue_id \in {"X-1", "X-2"}, statuses \in {<<"Todo", "In Progress", "Done">>} :
         \E in \in OpsMutationInputs(World, issue_id) :
            OpsReturned(cycle_issue_status(World, issue_id, statuses, in), statuses)

OpsCycleIssueAssignee ==
    /\ OpsReady
    /\ \E issue_id \in {"X-1", "X-2"} :
         \E in \in OpsMutationInputs(World, issue_id) :
            OpsReturned(cycle_issue_assignee(World, issue_id, in), <<>>)

OpsCycleIssuePoints ==
    /\ OpsReady
    /\ \E issue_id \in {"X-1", "X-2"} :
         \E in \in OpsMutationInputs(World, issue_id) :
            OpsReturned(cycle_issue_points(World, issue_id, 1, PointsMaxArg, in),
                        <<1, PointsMaxArg>>)

NextOps ==
    \/ LoadFromCache
    \/ OpsSync
    \/ OpsCycleIssueStatus
    \/ OpsCycleIssueAssignee
    \/ OpsCycleIssuePoints
    \/ Return

SpecOps == InitOps /\ [][NextOps]_vars

\* C18: after initialize and any sequence of load_from_cache, syncs of any
\* outcome and mutations of any outcome, every in-memory issue that has an
\* assignee has one whose id is the id of a user of the in-memory user list
C18_AssigneesAreKnownUsers ==
    \A k \in DOMAIN issues :
        issues[k].assignee # NoUser =>
            \E u \in Range(users) : u.id = issues[k].assignee.id

\* load_from_cache has just completed
LoadCompleted == last.op = "load" /\ ~last.raised

\* the places of the by-team map that hold the state st
FiledAt(st) ==
    {p \in UNION {{<<t, k>> : k \in DOMAIN workflow_states_by_team[t]} :
                     t \in DOMAIN workflow_states_by_team} :
        workflow_states_by_team[p[1]][p[2]] = st}

\* C17: right after load_from_cache completes, the in-memory users,
\* projects, issues, workflow states and sync history are the contents of
\* the store, and every workflow state is filed under its own team id in
\* the by-team map, under no other team and not twice
C17_LoadMirrorsStore ==
    LoadCompleted =>
       /\ users = db_users
       /\ projects = db_projects
       /\ Len(issues) = Len(db_issues)
       /\ \A k \in DOMAIN issues :
             /\ \A f \in {"id", "linear_id", "title", "priority", "due_date", "status",
                          "state_id", "team_id", "points", "project_id"} :
                   issues[k][f] = db_issues[k][f]
             /\ IF db_issues[k].assignee_id = None
                THEN issues[k].assignee = NoUser
                ELSE /\ issues[k].assignee.id = db_issues[k].assignee_id
                     /\ \A u \in Range(db_users) :
                           u.id = db_issues[k].assignee_id => issues[k].assignee = u
       /\ \A t \in DOMAIN workflow_states_by_team :
             \A st \in Range(workflow_states_by_team[t]) :
                st.team_id = t /\ st \in Range(db_workflow_states)
       /\ \A st \in Range(db_workflow_states) :
             FiledAt(st) # {} /\ \A p \in FiledAt(st) : p[1] = st.team_id
       /\ \A st \in Range(db_workflow_states) :
             Cardinality(FiledAt(st))
                = Cardinality({k \in DOMAIN db_workflow_states : db_workflow_states[k] = st})
       /\ Len(sync_history) = Len(db_sync_history)
       /\ Range(sync_history) = Range(db_sync_history)
       /\ \A k \in 1..(Len(sync_history) - 1) :
             sync_history[k].id > sync_history[k + 1].id

\* a load replaced a memory that differed from a store with users, issues,
\* states of two teams and recorded sync attempts
C17_Witness ==
    /\ LoadCompleted
    /\ last.changed
    /\ Len(users) > 1
    /\ issues # <<>>
    /\ Cardinality(DOMAIN workflow_states_by_team) > 1
    /\ sync_history # <<>>

----------------------------------------------------------------------------
(* Properties of the status cycle and of the state it resolves to *)

\* cycle_issue_status has just returned (true, ...)
StatusSucceeded == last.op = "status" /\ last.ok

\* the cached states of the teams other than the issue's own
OtherTeamStates(team_id) ==
    UNION {Range(workflow_states_by_team[t]) :
              t \in (DOMAIN workflow_states_by_team) \ {team_id}}

\* C19: whenever cycle_issue_status succeeds, the state id written to the
\* issue and sent to the remote is the id of a workflow state cached under
\* the issue's own team, and of no state of another team, even when one of
\* those matches the target status or the configured override by name or id
C19_StateOfOwnTeamOnly ==
    StatusSucceeded =>
       /\ last.pre.team_id \in DOMAIN workflow_states_by_team
       /\ Current.team_id = last.pre.team_id
       /\ \E st \in Range(workflow_states_by_team[last.pre.team_id]) :
             /\ st.team_id = last.pre.team_id
             /\ st.id = Current.state_id
             /\ st.id = CurrentRow.state_id
             /\ Len(last.remote_calls) = 1
             /\ last.remote_calls[1].arg = st.id
       /\ \A st \in OtherTeamStates(last.pre.team_id) : st.id # Current.state_id

\* a status mutation succeeded with a state of the issue's team although a
\* state of another team has the name of the target status
C19_Witness ==
    /\ StatusSucceeded
    /\ \E st \in OtherTeamStates(last.pre.team_id) :
          casefold(st.name) = casefold(last.target.status)
    /\ \E st \in Range(workflow_states_by_team[last.pre.team_id]) :
          casefold(st.name) # casefold(last.target.status) /\ st.id = Current.state_id

----------------------------------------------------------------------------
(* Runs of cycle_issue_status over tuples of every shape *)

\* status cycles of the caller in a cycle run
MaxCycles == 3

\* the tuples passed to cycle_issue_status: empty, of one status, of two
\* (the stored status last), the configured three, and one in which a
\* status occurs twice
CycleTuples ==
    {<<>>, <<"Todo">>, <<"In Progress", "Todo">>, <<"Todo", "In Progress", "Done">>,
     <<"Todo", "In Progress", "Todo", "Done">>}

\* the responses of the collaborators to one status cycle
CycleInputs ==
    {MutationInput(Success, "ok", NoScript),
     MutationInput(Success, "disk I/O error", NoScript),
     MutationInput(Raise(OtherError("network")), "ok", NoScript)}

InitCycle ==
    /\ InitWith(StoredUsers, StoredProjects, StoredIssues, StoredWorkflowStates)
    /\ linear_status_mappings \in Configs
    /\ api_key = TRUE
    /\ env_api_key = TRUE
    /\ faults_left = 0

\* the caller cycles the status of an issue (views/issue_detail.py) and
\* sees what the call left of the engine and of the store
CycleStatusOnly ==
    /\ last = Idle
    /\ calls_made < MaxCycles
    /\ calls_made' = calls_made + 1
    /\ \E issue_id \in IssueIds, statuses \in CycleTuples, in \in CycleInputs :
         \E r \in {cycle_issue_status(World, issue_id, statuses, in)} :
            /\ Becomes(r.w)
            /\ last' = r.o @@ [frame |-> Frame(World, r.w), args |-> statuses,
                               unchanged |-> r.w = World]
    /\ UNCHANGED faults_left

NextCycle ==
    \/ CycleStatusOnly
    \/ Return

SpecCycle == InitCycle /\ [][NextCycle]_vars

\* C20: for a known issue and a non-empty tuple, the status that
\* cycle_issue_status applies is the one after the first occurrence of the
\* issue's status in the tuple, wrapping to the first, and the first when
\* the status does not occur; with an empty tuple or an unknown issue id the
\* call returns failure, calls nothing and changes nothing
C20_CycleAppliesNextStatus ==
    last.op = "status" =>
       IF ~last.found \/ last.args = <<>>
       THEN /\ ~last.ok
            /\ last.remote_calls = <<>>
            /\ last.get_issue_calls = <<>>
            /\ last.syncs = <<>>
            /\ last.writes = <<>>
            /\ last.unchanged
       ELSE /\ last.target.status = NextInCycle(last.args, last.pre.status)
            /\ last.ok => /\ Current.status = last.target.status
                          /\ CurrentRow.status = last.target.status

\* a status cycle succeeded on a tuple in which the issue's status occurs
\* twice
C20_Witness ==
    /\ last.op = "status"
    /\ last.ok
    /\ Cardinality({k \in DOMAIN last.args : last.args[k] = last.pre.status}) > 1

----------------------------------------------------------------------------
(* Cursor pagination of the list fetches: linear.py:75-195.  A fetch is a  *)
(* loop of requests; the caller's position holds the loop's locals and the *)
(* remote that answers it.                                                 *)

\* pages a remote may hold
MaxPages == 3
\* requests after which a fetch is no longer followed
MaxRequests == 4

\* LinearClient.PAGE_SIZE
PAGE_SIZE == 100

\* the cursor that asks for page j
Cursors == <<"c1", "c2", "c3", "c4", "c5", "c6">>

\* the nodes of page j of a list
PageNodes(list, j) == [k \in 1..(j % 3) |-> [list |-> list, page |-> j, k |-> k]]

\* the pageInfo values page j of a remote of n pages may carry: the end
\* cursor is null, empty, or that of the next page (of the first page on
\* the last one: the cursors then run in a circle)
PageInfos(j, n) ==
    [hasNextPage : BOOLEAN,
     endCursor : {None, "", Cursors[IF j < n THEN j + 1 ELSE 1]}]

\* what page j of a remote of n pages may be: with a pageInfo or without
PageShapes(j, n) ==
    [has_page_info : {TRUE}, pageInfo : PageInfos(j, n)]
    \cup {[has_page_info |-> FALSE, pageInfo |-> [hasNextPage |-> FALSE, endCursor |-> None]]}

\* the remotes: up to MaxPages pages
Remotes ==
    UNION {{remote \in [1..n -> UNION {PageShapes(j, n) : j \in 1..n}] :
               \A j \in 1..n : remote[j] \in PageShapes(j, n)}
              : n \in 1..MaxPages}

\* the page the remote returns for the variables {first, after}
Answer(remote, list, after) ==
    With(IF \E j \in 1..Len(Cursors) : Cursors[j] = after
         THEN CHOOSE j \in 1..Len(Cursors) : Cursors[j] = after
         ELSE 1,
         LAMBDA j :
            With(IF j \in DOMAIN remote THEN j ELSE 1, LAMBDA at :
               [nodes |-> PageNodes(list, at),
                has_page_info |-> remote[at].has_page_info,
                pageInfo |-> remote[at].pageInfo]))

\* an iteration that leaves the loop only when hasNextPage is false
fetch_iteration_ignoring_missing_cursor(f) == With(Answer(f.remote, f.list, f.after), LAMBDA page : [f EXCEPT !.requests = Append(@, [first |-> PAGE_SIZE, after |-> f.after]), !.answers = Append(@, page), !.nodes = @ \o page.nodes, !.after = IF page.has_page_info /\ page.pageInfo.hasNextPage THEN page.pageInfo.endCursor ELSE @, !.op = IF page.has_page_info /\ page.pageInfo.hasNextPage THEN "fetch_running" ELSE "fetch_done"])

\* one iteration of the while loop (linear.py:90-99, 140-149, 176-185):
\* query, extend, read pageInfo, break or take the end cursor
fetch_iteration(f) ==
    With(Answer(f.remote, f.list, f.after), LAMBDA page :
    With(IF page.has_page_info THEN page.pageInfo
         ELSE [hasNextPage |-> FALSE, endCursor |-> None],
         LAMBDA page_info :
       [f EXCEPT
          !.requests = Append(@, [first |-> PAGE_SIZE, after |-> f.after]),
          !.answers = Append(@, page),
          !.nodes = @ \o page.nodes,
          !.after = IF page_info.hasNextPage THEN page_info.endCursor ELSE @,
          !.op = IF page_info.hasNextPage /\ Truthy(page_info.endCursor)
                 THEN "fetch_running" ELSE "fetch_done"]))

\* the engine stays as it is while a list is fetched
EngineUnchanged ==
    UNCHANGED <<users, projects, issues, workflow_states_by_team,
                sync_in_progress, last_sync_at, last_sync_error, last_sync_result,
                sync_diagnostics, last_sync_counts, sync_history,
                linear_status_mappings, api_key, env_api_key,
                db_users, db_projects, db_issues, db_workflow_states,
                db_sync_history, db_seq, clock, faults_left>>

InitPages ==
    /\ InitWith(StoredUsers, StoredProjects, StoredIssues, StoredWorkflowStates)
    /\ linear_status_mappings = EmptyDict
    /\ api_key = TRUE
    /\ env_api_key = TRUE
    /\ faults_left = 0

\* get_projects, get_issues or get_team_workflow_states is called: the
\* list is empty and the cursor null (linear.py:88-89)
FetchBegin ==
    /\ last = Idle
    /\ UNCHANGED calls_made
    /\ \E list \in {"projects", "issues", "teams"}, remote \in Remotes :
          last' = [op |-> "fetch_running", list |-> list, remote |-> remote,
                   after |-> None, nodes |-> <<>>, requests |-> <<>>, answers |-> <<>>]
    /\ EngineUnchanged

\* the loop runs one more iteration
FetchPage ==
    /\ last.op = "fetch_running"
    /\ Len(last.requests) < MaxRequests
    /\ last' = fetch_iteration(last)
    /\ UNCHANGED calls_made
    /\ EngineUnchanged

NextPages ==
    \/ FetchBegin
    \/ FetchPage
    \/ Return

SpecPages == InitPages /\ [][NextPages]_vars /\ WF_vars(FetchPage)

\* a list fetch is under way or has just returned
IsFetch == last.op \in {"fetch_running", "fetch_done"}

\* the page ends the pagination: hasNextPage is not true or there is no
\* end cursor
LastPage(page) ==
    \/ ~page.has_page_info
    \/ ~page.pageInfo.hasNextPage
    \/ page.pageInfo.endCursor \in {None, ""}

\* the indices of the pages of the remote that its cursors chain from the
\* first page on, up to the first page that ends the pagination, or more
\* than Len(remote) of them when the cursors run in a circle
RECURSIVE ChainFrom(_, _, _)
ChainFrom(remote, j, fuel) ==
    IF LastPage(remote[j]) \/ fuel = 0 THEN <<j>>
    ELSE <<j>> \o ChainFrom(remote,
                            CHOOSE t \in DOMAIN remote :
                                Cursors[t] = remote[j].pageInfo.endCursor,
                            fuel - 1)

Chain(remote) == ChainFrom(remote, 1, Len(remote))

\* the remote holds a finite chain of pages
FiniteChain(remote) == Len(Chain(remote)) <= Len(remote)

RECURSIVE ConcatNodes(_)
ConcatNodes(pages) ==
    IF pages = <<>> THEN <<>> ELSE Head(pages).nodes \o ConcatNodes(Tail(pages))

\* what holds of a fetch at every request
PaginationShape ==
    IsFetch =>
       /\ Len(last.answers) = Len(last.requests)
       /\ \A i \in DOMAIN last.requests :
             /\ last.requests[i].first = 100
             /\ last.requests[i].after
                   = IF i = 1 THEN None ELSE last.answers[i - 1].pageInfo.endCursor
             /\ i < Len(last.requests) => ~LastPage(last.answers[i])
       /\ last.op = "fetch_done"
             <=> (last.answers # <<>> /\ LastPage(last.answers[Len(last.answers)]))
       /\ last.nodes = ConcatNodes(last.answers)
       /\ (last.op = "fetch_done" /\ FiniteChain(last.remote))
             => /\ Len(last.requests) = Len(Chain(last.remote))
                /\ last.nodes
                     = ConcatNodes([i \in 1..Len(Chain(last.remote)) |->
                          [nodes |-> PageNodes(last.list, Chain(last.remote)[i])]])

\* C21: every list fetch requests pages of 100, the first with a null
\* cursor and each later one with the end cursor of the page before; it
\* stops at the first page whose hasNextPage is false or whose end cursor is
\* missing and requests nothing after it; it returns the nodes of the
\* fetched pages in page order; on a finite chain of k pages it terminates
\* after exactly k requests
C21_PaginationFollowsCursors ==
    /\ [] PaginationShape
    /\ (last.op = "fetch_running" /\ FiniteChain(last.remote)) ~> (last.op = "fetch_done")

\* a fetch returned the nodes of a chain of three pages
C21_Witness ==
    /\ last.op = "fetch_done"
    /\ FiniteChain(last.remote)
    /\ Len(last.requests) = 3
    /\ Len(last.nodes) = 3

----------------------------------------------------------------------------
(* Properties of the in-memory mirror of the sync history *)

\* the history h holds the newest rows of the sync_history table, newest
\* first, at most 20 of them
MirrorsStoredHistory(h) ==
    /\ Len(h) = IF Len(db_sync_history) < 20 THEN Len(db_sync_history) ELSE 20
    /\ Range(h) \subseteq Range(db_sync_history)
    /\ \A k \in 1..(Len(h) - 1) : h[k].id > h[k + 1].id
    /\ \A row \in Range(db_sync_history) \ Range(h) :
          \A kept \in Range(h) : row.id < kept.id

\* what a new engine opened on the same store reports after load_from_cache
FreshEngineHistory == load_from_cache(NewDataManager(World), "none").w.sync_history

----------------------------------------------------------------------------
(* The frame of load_from_cache *)

\* the fields of the world w that are not part of the snapshot
OutsideSnapshot(w) ==
    [f \in (DOMAIN w) \ {"users", "projects", "issues", "workflow_states_by_team",
                         "sync_history"} |-> w[f]]

\* C23: load_from_cache changes only the snapshot (users, projects, issues,
\* workflow states, sync history): the last-sync result, error, timestamp,
\* diagnostics and counts and the in-progress flag, like the store, are left
\* as they were; so a new engine loaded from a store that an earlier one
\* filled by a successful sync reports the last-sync result "idle"
C23_LoadChangesOnlySnapshot ==
    /\ last.op = "load" =>
          /\ last_sync_result = last.pre.last_sync_result
          /\ last_sync_error = last.pre.last_sync_error
          /\ last_sync_at = last.pre.last_sync_at
          /\ sync_diagnostics = last.pre.sync_diagnostics
          /\ last_sync_counts = last.pre.last_sync_counts
          /\ sync_in_progress = last.pre.sync_in_progress
          /\ OutsideSnapshot(World) = OutsideSnapshot(last.pre)
    /\ (last.op = "sync" /\ last_sync_result = "success") =>
          \E fresh \in {load_from_cache(NewDataManager(World), "none").w} :
             /\ fresh.last_sync_result = "idle"
             /\ fresh.last_sync_error = NoError
             /\ fresh.sync_diagnostics = EmptyDict
             /\ ~fresh.sync_in_progress
             /\ fresh.users = db_users
             /\ Len(fresh.issues) = Len(db_issues)

\* a load replaced the snapshot of an engine whose last sync had failed
C23_Witness ==
    /\ LoadCompleted
    /\ last.changed
    /\ last_sync_result = "failed"
    /\ last_sync_error # NoError
    /\ sync_diagnostics # EmptyDict
    /\ last.pre.users # users

----------------------------------------------------------------------------
(* Reconciliation and the classified reason of a remote failure *)

\* the reason that the failure message gives for the exception of the
\* remote update (data.py:434-457); an exception that is no LinearApiError
\* has none
ClassifiedReason ==
    IF last.exception.api THEN _format_remote_error(last.exception)[1] ELSE "transport"

\* getIssue or a full sync was called for the failed mutation
ReconciliationAttempted == last.get_issue_calls # <<>> \/ last.syncs # <<>>

\* C24: after a remote mutation failure, reconciliation (getIssue and/or a
\* full sync) is attempted if and only if the client has a credential and
\* the classified reason of the error is stale/conflict or not-found; for
\* every other reason no reconciliation call is made
C24_ReconcileIffConflictClass ==
    RemoteFailed =>
       (ReconciliationAttempted
           <=> (api_key /\ ClassifiedReason \in {"stale issue data",
                                                 "issue not found or inaccessible"}))

----------------------------------------------------------------------------
(* The Status Mapping Resolver over issues, caches and overrides of every  *)
(* shape                                                                   *)

\* issue rows of a team with cached states, of a second team, of no team,
\* and of a team that has no cached state
ResolveIssues ==
    StoredIssues
    \o <<[id |-> "X-3", linear_id |-> None, title |-> "Loose", priority |-> "0",
          due_date |-> None, status |-> "Todo", state_id |-> None, team_id |-> None,
          assignee_id |-> None, points |-> 0, project_id |-> None],
         [id |-> "X-4", linear_id |-> "lin-4", title |-> "New team", priority |-> "1",
          due_date |-> None, status |-> "Todo", state_id |-> None, team_id |-> "team-3",
          assignee_id |-> None, points |-> 0, project_id |-> None]>>

\* the overrides of a run: none, by id and by name, or one per status
ResolveConfigs ==
    Configs
    \cup {[k \in {"in progress"} |-> "state-2"],
          [k \in {"review", "done"} |-> IF k = "review" THEN "in progress" ELSE "Cancelled"]}

\* the target statuses handed to the resolver
ResolveTargets == {"Todo", "IN PROGRESS", "Done", "Review"}

InitResolve ==
    /\ \E cached \in {StoredWorkflowStates, <<>>} :
          InitWith(StoredUsers, StoredProjects, ResolveIssues, cached)
    /\ linear_status_mappings \in ResolveConfigs
    /\ api_key = TRUE
    /\ env_api_key = TRUE
    /\ faults_left = 0

\* cycle_issue_status asks the resolver for the state of a target status
\* (data.py:275); the engine stays as it is
Resolve ==
    /\ last = Idle
    /\ \E k \in DOMAIN issues, status \in ResolveTargets :
          last' = [op |-> "resolve", issue |-> issues[k], status |-> status,
                   result |-> _resolve_state_id_for_status(linear_status_mappings,
                                  workflow_states_by_team, issues[k], status)]
    /\ UNCHANGED calls_made
    /\ EngineUnchanged

NextResolve ==
    \/ Resolve
    \/ Return

SpecResolve == InitResolve /\ [][NextResolve]_vars

\* the states cached under the team of the issue handed to the resolver
CachedForIssue ==
    IF last.issue.team_id \in DOMAIN workflow_states_by_team
    THEN Range(workflow_states_by_team[last.issue.team_id]) ELSE {}

\* the override configured for the case-folded target, or None
Override ==
    IF casefold(last.status) \in DOMAIN linear_status_mappings
    THEN linear_status_mappings[casefold(last.status)] ELSE None

\* the resolver failed with a warning that starts with the words given
FailedWith(words) ==
    /\ last.result.id = None
    /\ Len(last.result.warning) >= Len(words)
    /\ SubSeq(last.result.warning, 1, Len(words)) = words

\* C25: the resolver returns exactly one of a state id and a warning.  With
\* an override for the case-folded target the result is the id of a state
\* of the issue's team whose id is the override or whose name is it up to
\* case, else a failure ("not found" when the team has cached states,
\* "could not be validated" when it has none), and the name of the target is
\* not matched.  Without one the result is the team state named like the
\* target up to case, else a failure: no team, then no cached states, then
\* no mapping
C25_ResolverOneOfIdOrWarning ==
    last.op = "resolve" =>
       /\ (last.result.id # None) # (last.result.warning # <<>>)
       /\ IF Override # None
          THEN IF \E st \in CachedForIssue :
                     st.id = Override \/ casefold(st.name) = casefold(Override)
               THEN \E st \in CachedForIssue :
                       /\ st.id = Override \/ casefold(st.name) = casefold(Override)
                       /\ last.result.id = st.id
               ELSE IF CachedForIssue # {}
               THEN FailedWith(<<"configured mapping '", Override,
                                 "' not found for team workflow states">>)
               ELSE FailedWith(<<"configured mapping '", Override,
                                 "' could not be validated (no team workflow states cached)">>)
          ELSE IF \E st \in CachedForIssue : casefold(st.name) = casefold(last.status)
               THEN \E st \in CachedForIssue :
                       /\ casefold(st.name) = casefold(last.status)
                       /\ last.result.id = st.id
               ELSE IF last.issue.team_id = None
               THEN FailedWith(<<"no team id on ", last.issue.id>>)
               ELSE IF CachedForIssue = {}
               THEN FailedWith(<<"no workflow states cached for team ", last.issue.team_id>>)
               ELSE FailedWith(<<"no mapping for status '", last.status, "' in team ",
                                 last.issue.team_id>>)

\* the override of the target matched no state of the team, the team has a
\* state named like the target, and the resolver failed
C25_Witness ==
    /\ last.op = "resolve"
    /\ Override # None
    /\ \E st \in CachedForIssue : casefold(st.name) = casefold(last.status)
    /\ FailedWith(<<"configured mapping '", Override, "' not found for team workflow states">>)

----------------------------------------------------------------------------
(* Runs of consecutive cycle_issue_assignee calls *)

\* assignee cycles of the caller in an assignee run
MaxAssigneeCalls == 3

\* the stored issues and one assigned to Carol: a known user when the users
\* table holds her, and the assignee of no known user when it does not (the
\* store that a failed save_users of a refetch leaves)
AssigneeIssues ==
    StoredIssues
    \o <<[id |-> "X-5", linear_id |-> "lin-5", title |-> "Hers", priority |-> "1",
          due_date |-> None, status |-> "Todo", state_id |-> "state-1",
          team_id |-> "team-1", assignee_id |-> "u3", points |-> 3, project_id |-> "p1"]>>

InitAssignee ==
    /\ \E stored_users \in {<<Alice>>, <<Alice, Carol>>, <<Carol, Alice>>} :
          InitWith(stored_users, StoredProjects, AssigneeIssues, StoredWorkflowStates)
    /\ linear_status_mappings = EmptyDict
    /\ api_key = TRUE
    /\ env_api_key = TRUE
    /\ faults_left = 0

\* the caller cycles the assignee of an issue (views/issue_detail.py), once
\* more or for the first time; it remembers the assignee a streak of
\* successful calls on one issue started from and the assignees it went
\* through
CycleAssigneeAgain ==
    /\ last.op \in {"idle", "assignee"}
    /\ calls_made < MaxAssigneeCalls
    /\ calls_made' = calls_made + 1
    /\ \E issue_id \in {"X-1", "X-2", "X-5"},
          in \in {MutationInput(Success, "ok", NoScript),
                  MutationInput(Raise(OtherError("network")), "ok", NoScript)} :
         \E r \in {cycle_issue_assignee(World, issue_id, in)} :
            /\ Becomes(r.w)
            /\ last' = r.o @@
                  [frame |-> Frame(World, r.w), args |-> <<>>,
                   start |-> IF last.op = "assignee" /\ last.issue_id = issue_id /\ last.ok
                             THEN last.start ELSE r.o.pre.assignee,
                   trail |-> IF ~r.o.ok THEN <<>>
                             ELSE (IF last.op = "assignee" /\ last.issue_id = issue_id
                                      /\ last.ok
                                   THEN last.trail ELSE <<>>)
                                  \o <<IssueOf(r.w, issue_id).assignee>>]
    /\ UNCHANGED faults_left

NextAssignee ==
    \/ CycleAssigneeAgain
    \/ Return

SpecAssignee == InitAssignee /\ [][NextAssignee]_vars

\* the cycle of candidates: unassigned, then the known users in order
AssigneeCycle == <<NoUser>> \o users

\* the assignee is an entry of the cycle, by identifier
InCycle(a) == \E k \in DOMAIN AssigneeCycle : AssigneeCycle[k].id = a.id

\* the entry of the cycle after the one with the identifier of a, wrapping
\* to the first; the second entry when a is no entry
EntryAfter(a) ==
    IF InCycle(a)
    THEN AssigneeCycle[((CHOOSE k \in DOMAIN AssigneeCycle : AssigneeCycle[k].id = a.id)
                           % Len(AssigneeCycle)) + 1]
    ELSE AssigneeCycle[(1 % Len(AssigneeCycle)) + 1]

\* the assignee before the k-th call of the streak's last n+1 calls
StreakAt(k) ==
    IF Len(last.trail) - (Len(users) + 1) + k = 0 THEN last.start
    ELSE last.trail[Len(last.trail) - (Len(users) + 1) + k]

\* every call picks the entry after the current assignee
PicksNextEntry ==
    (last.op = "assignee" /\ last.found) =>
       /\ last.target = EntryAfter(last.pre.assignee)
       /\ last.ok => Current.assignee = last.target
       /\ ~last.ok => Current.assignee = last.pre.assignee

\* n+1 successful calls in a row visited every entry of the cycle once
VisitsEveryEntryOnce ==
    (last.op = "assignee" /\ Len(last.trail) >= Len(users) + 1) =>
       /\ {StreakAt(k).id : k \in 1..(Len(users) + 1)}
             = {AssigneeCycle[k].id : k \in DOMAIN AssigneeCycle}
       /\ \A j, k \in 1..(Len(users) + 1) : StreakAt(j).id = StreakAt(k).id => j = k

----------------------------------------------------------------------------
(* The points cycle *)

\* C27: cycle_issue_points sets the points to points + step, or to 0 when
\* that exceeds max; so a call on points within 0..max with step >= 1 that
\* ends in success or in a rollback leaves the in-memory points within
\* 0..max: the new value on success, the old one after a rollback
C27_PointsStayWithinMax ==
    (/\ last.op = "points"
     /\ last.found
     /\ last.pre.points \in 0..last.args[2]
     /\ last.args[1] >= 1
     /\ ~ReconciliationAttempted)
        => /\ last.target = IF last.pre.points + last.args[1] > last.args[2] THEN 0
                            ELSE last.pre.points + last.args[1]
           /\ Current.points \in 0..last.args[2]
           /\ last.ok => Current.points = last.target /\ CurrentRow.points = last.target
           /\ ~last.ok => Current.points = last.pre.points

\* a successful call wrapped the points of an issue from the maximum to 0
C27_Witness ==
    /\ last.op = "points"
    /\ last.ok
    /\ last.pre.points = last.args[2]
    /\ last.pre.points + last.args[1] > last.args[2]
    /\ Current.points = 0

----------------------------------------------------------------------------
(* Properties of what a successful sync leaves in the store and in memory *)

SyncSucceeded == last.op = "sync" /\ ~last.raised /\ last_sync_result = "success"

\* the identifiers of the issues the remote fetch of the last sync returned
FetchedIdentifiers == {last.data.issues[k].identifier : k \in DOMAIN last.data.issues}

\* C28: after a successful sync the issues of the Local Store and of the
\* in-memory snapshot are exactly the issues returned by that sync's remote
\* fetch; an issue stored before and not fetched is gone.
C28_SyncReplacesIssues ==
    SyncSucceeded =>
       /\ {db_issues[k].id : k \in DOMAIN db_issues} = FetchedIdentifiers
       /\ {issues[k].id : k \in DOMAIN issues} = FetchedIdentifiers

\* the states a fetch brought that the engine keeps: those with an id and a
\* name, of the teams with an id
FetchedStates ==
    UNION {{[id |-> st.id, name |-> st.name, team_id |-> t.id] :
               st \in {x \in Range(t.states) : Truthy(x.id) /\ Truthy(x.name)}} :
           t \in {y \in Range(last.data.teams) : Truthy(y.id)}}

StateKey(st) == [id |-> st.id, name |-> st.name, team_id |-> st.team_id]

\* C29: after a successful sync the persisted and the in-memory workflow
\* states are exactly the states (with id and name) of the teams (with id)
\* that the sync fetched: no state of an earlier sync survives, and a sync
\* that fetched no state leaves the workflow-state table empty.
C29_SyncReplacesWorkflowStates ==
    SyncSucceeded =>
       /\ {StateKey(st) : st \in Range(db_workflow_states)} = FetchedStates
       /\ Len(db_workflow_states) = Cardinality(FetchedStates)
       /\ {StateKey(st) : st \in AllStates(workflow_states_by_team)} = FetchedStates
       /\ \A t \in DOMAIN workflow_states_by_team :
             /\ workflow_states_by_team[t] # <<>>
             /\ \A st \in Range(workflow_states_by_team[t]) : st.team_id = t
       /\ FetchedStates = {} =>
             /\ db_workflow_states = <<>>
             /\ DOMAIN workflow_states_by_team = {}

\* a successful sync that fetched no state has emptied a table that held rows
C29_Witness ==
    /\ SyncSucceeded
    /\ last.pre.state_rows > 0
    /\ FetchedStates = {}
    /\ db_workflow_states = <<>>

----------------------------------------------------------------------------
(* Properties of the persist step *)

TableNow(t) ==
    CASE t = "users" -> db_users
      [] t = "projects" -> db_projects
      [] t = "issues" -> db_issues
      [] t = "workflow_states" -> db_workflow_states

\* the batch of table t of the last sync is in the store
Written(t) ==
    CASE t = "users" ->
           \A k \in DOMAIN last.data.issues :
              Truthy(last.data.issues[k].assignee.id) =>
                 \E r \in Range(db_users) :
                    /\ r.id = last.data.issues[k].assignee.id
                    /\ r.name = last.data.issues[k].assignee.name
      [] t = "projects" ->
           \A p \in Range(last.data.projects) :
              \E r \in Range(db_projects) :
                 /\ r.id = p.id
                 /\ r.name = p.name
                 /\ r.issues_count =
                       Cardinality({k \in DOMAIN last.data.issues :
                                       last.data.issues[k].project_id = p.id})
      [] t = "issues" ->
           \A k \in DOMAIN last.data.issues :
              \E r \in Range(db_issues) :
                 /\ r.id = last.data.issues[k].identifier
                 /\ r.linear_id = last.data.issues[k].id
                 /\ r.title = last.data.issues[k].title
      [] t = "workflow_states" ->
           {StateKey(st) : st \in Range(db_workflow_states)} = FetchedStates

\* the persist call of table WriteOrder[k] raised in the last sync
WriteFailed(k) == last.op = "sync" /\ last.stop = PersistCalls[k]

\* C30: the persist step writes users, projects, issues, workflow states
\* in that order, each as one batch.  When the write of one collection
\* fails, the collections before it are in the store, that collection and
\* the later ones are as they were before the sync, the persist step is
\* recorded as "failed: <error>", and no reload is performed: the reload
\* step is not recorded and the in-memory snapshot is the one from before.
C30_PersistStopsAtFirstFailedWrite ==
    /\ last.op = "sync" =>
          /\ \E n \in 0..Len(WriteOrder) : PipelineWrites = SubSeq(WriteOrder, 1, n)
          /\ \A j \in 1..Len(PipelineWrites) : Written(PipelineWrites[j])
    /\ \A k \in 1..Len(WriteOrder) :
          WriteFailed(k) =>
             /\ PipelineWrites = SubSeq(WriteOrder, 1, k - 1)
             /\ \A j \in k..Len(WriteOrder) :
                   TableNow(WriteOrder[j]) = last.pre.tables[WriteOrder[j]]
             /\ "persist" \in DOMAIN sync_diagnostics
             /\ sync_diagnostics["persist"] = <<"failed: ", "disk I/O error">>
             /\ last_sync_result = "failed"
             /\ "reload" \notin DOMAIN sync_diagnostics
             /\ users = last.pre.users
             /\ projects = last.pre.projects
             /\ issues = last.pre.issues

\* the write of the issues failed: the users and the projects of the fetch
\* are stored and changed their tables, the issues and the workflow states
\* are the rows from before the sync
C30_Witness ==
    /\ WriteFailed(3)
    /\ PipelineWrites = <<"users", "projects">>
    /\ db_users # last.pre.tables["users"]
    /\ db_projects # last.pre.tables["projects"]
    /\ db_issues = last.pre.tables["issues"]
    /\ db_workflow_states = last.pre.tables["workflow_states"]
    /\ StepIsFailed("persist")

----------------------------------------------------------------------------
(* The classification of remote errors over messages, codes and types of   *)
(* every shape                                                             *)

ErrorMessages ==
    {"Issue is archived", "You don't have permission", "Invalid state transition",
     "State not found", "stale issue", "Conflict detected", "Entity not found",
     "Archived issue has a conflict", "Stale state not found",
     "No permission: ARCHIVED", "Something went wrong"}
ErrorCodes == {None, "FORBIDDEN", "UNAUTHORIZED", "CONFLICT", "NOT_FOUND"}
ErrorTypes == {None, "AuthError"}

\* the exceptions a remote update may raise
RemoteErrors ==
    {ApiError(m, c, t) : m \in ErrorMessages, c \in ErrorCodes, t \in ErrorTypes}
    \cup {OtherError(m) : m \in ErrorMessages \cup {"network"}}

InitClassify ==
    /\ InitWith(StoredUsers, StoredProjects, StoredIssues, StoredWorkflowStates)
    /\ linear_status_mappings = EmptyDict
    /\ api_key = TRUE
    /\ env_api_key = TRUE
    /\ faults_left = 0

\* the failure path of a mutation formats the exception of the remote
\* update (data.py:365); the engine stays as it is
FormatRemoteError ==
    /\ last = Idle
    /\ \E e \in RemoteErrors :
          last' = [op |-> "format", error |-> e, text |-> _format_remote_error(e)]
    /\ UNCHANGED calls_made
    /\ EngineUnchanged

NextClassify ==
    \/ FormatRemoteError
    \/ Return

SpecClassify == InitClassify /\ [][NextClassify]_vars

\* the reasons, in the order of their precedence
Reasons ==
    <<"issue is archived", "permission denied", "invalid state", "stale issue data",
      "issue not found or inaccessible", "Linear API error">>

\* the test of reason k on the case-folded message and the code of e
ReasonApplies(k, e) ==
    CASE k = 1 -> "archived" \in Words(e.message)
      [] k = 2 -> "permission" \in Words(e.message) \/ e.code \in {"FORBIDDEN", "UNAUTHORIZED"}
      [] k = 3 -> /\ "state" \in Words(e.message)
                  /\ \E w \in {"invalid", "not found"} : w \in Words(e.message)
      [] k = 4 -> \E w \in {"stale", "conflict"} : w \in Words(e.message)
      [] k = 5 -> "not found" \in Words(e.message)
      [] k = 6 -> TRUE

\* C31: a structured remote error is given exactly one reason, the first
\* in the precedence archived, permission denied, invalid state, stale,
\* not found, generic whose test the case-folded message and the code pass;
\* an error that is not structured is reported with its raw message.
C31_ReasonByPrecedence ==
    last.op = "format" =>
       IF last.error.api
       THEN /\ Len(last.text) >= 3
            /\ \E k \in DOMAIN Reasons :
                  /\ last.text[1] = Reasons[k]
                  /\ ReasonApplies(k, last.error)
                  /\ \A j \in 1..(k - 1) : ~ReasonApplies(j, last.error)
            /\ Cardinality({k \in DOMAIN Reasons : last.text[1] = Reasons[k]}) = 1
            /\ last.text[3] = last.error.message
       ELSE last.text = <<last.error.message>>

\* an error whose message passes the tests of invalid state, of stale and
\* of not found is classified as invalid state
C31_Witness ==
    /\ last.op = "format"
    /\ last.error.api
    /\ last.error.message = "Stale state not found"
    /\ last.error.code = "NOT_FOUND"
    /\ last.text[1] = "invalid state"

----------------------------------------------------------------------------
(* Syncs of a fresh installation against a remote whose issue set changes  *)
(* from one sync to the next                                               *)

MaxCountSyncs == 2

RawReview ==
    RawIssue("lin-4", "X-4", "Other", [id |-> "state-4", name |-> "Review"],
             "team-1", NoUser, NoEstimate, "p1", TRUE)
RawBlocked ==
    RawIssue("lin-5", "X-5", "Stuck", [id |-> "state-5", name |-> "Blocked"],
             "team-1", NoUser, 3, "p1", TRUE)
RawUnfiled ==
    RawIssue("lin-6", "X-6", "Loose", NoState, None, NoUser, NoEstimate, None, TRUE)

\* what the remote holds at the time of a sync
CountsData ==
    {[RemoteData EXCEPT !.issues = fetched] :
        fetched \in {<<>>, <<RawFresh>>, <<RawBlocked>>, <<RawReview>>, <<RawFresh, RawReview>>,
                     <<RawUnfiled, RawReview>>, <<RawFresh, RawReview, RawBlocked>>}}

\* an installation whose store is still empty
InitCounts ==
    /\ InitWith(<<>>, <<>>, <<>>, <<>>)
    /\ linear_status_mappings = EmptyDict
    /\ api_key = TRUE
    /\ env_api_key = TRUE
    /\ faults_left = 0

\* the caller runs sync_with_linear (cli.py:55, app.py:95); every remote
\* read and every store call succeeds
SyncFetched ==
    /\ last = Idle
    /\ clock < MaxCountSyncs
    /\ \E data \in CountsData :
         \E s \in {SyncScript("none", "", data, "none")} :
            \E r \in {sync_with_linear(World, s)} :
               /\ Becomes(r.w)
               /\ last' = SyncObservation(World, s, r)
    /\ UNCHANGED <<calls_made, faults_left>>

NextCounts ==
    \/ SyncFetched
    \/ Return

SpecCounts == InitCounts /\ [][NextCounts]_vars

\* the in-memory issues filed under project p
IssuesOf(p) == {k \in DOMAIN issues : issues[k].project_id = p.id}

\* C32: immediately after a successful sync every in-memory project has as
\* total count the number of in-memory issues of that project, as
\* in-progress count the number of those with status "In Progress" or
\* "Review", and as blocked count the number of those whose status contains
\* "blocked"; so neither count exceeds the total.
C32_ProjectCountsMatchIssues ==
    SyncSucceeded =>
       \A p \in Range(projects) :
          /\ p.issues_count = Cardinality(IssuesOf(p))
          /\ p.in_progress_count =
                Cardinality({k \in IssuesOf(p) : issues[k].status \in {"In Progress", "Review"}})
          /\ p.blocked_count =
                Cardinality({k \in IssuesOf(p) : HasBlocked(issues[k].status)})
          /\ p.in_progress_count <= p.issues_count
          /\ p.blocked_count <= p.issues_count

----------------------------------------------------------------------------
(* _apply_remote_issue on fetched issues that match an in-memory issue by  *)
(* key, by remote identifier, by both or not at all                        *)

MaxApplies == 2

\* X-2 as the remote holds it: it matches the local X-2, which carries no
\* remote identifier, by key
RawLocal ==
    RawIssue("lin-2", "X-2", "Local (Remote)", NoState, "team-2", NoUser, 2, None, TRUE)
\* an issue that the engine does not hold yet
RawNew ==
    RawIssue("lin-7", "X-7", "New", [id |-> "state-1", name |-> "Todo"],
             "team-1", Alice, NoEstimate, "p1", TRUE)

ApplyRaws == {RawFresh, RawRenamed, RawLocal, RawNew}

InitApply ==
    /\ InitWith(StoredUsers, StoredProjects, StoredIssues, StoredWorkflowStates)
    /\ linear_status_mappings = EmptyDict
    /\ api_key = TRUE
    /\ env_api_key = TRUE
    /\ faults_left = 0

\* a reconciliation hands a fetched issue to _apply_remote_issue
\* (data.py:474); a store write of it may raise
ApplyRemoteIssue ==
    /\ last = Idle
    /\ calls_made < MaxApplies
    /\ calls_made' = calls_made + 1
    /\ \E raw \in ApplyRaws, stop \in {"none", "db.save_users", "db.save_issues"} :
         \E r \in {_apply_remote_issue(World, raw, stop)} :
            /\ Becomes(r.w)
            /\ last' = [op |-> "apply", raw |-> raw, raised |-> r.raised,
                        pre_issues |-> issues]
    /\ UNCHANGED faults_left

NextApply ==
    \/ ApplyRemoteIssue
    \/ Return

SpecApply == InitApply /\ [][NextApply]_vars

\* _apply_remote_issue returned without raising
Applied == last.op = "apply" /\ ~last.raised

\* x, an issue or a store row, is a version of the fetched issue: it has
\* its key or its remote identifier
VersionOfFetched(x) ==
    \/ x.id = last.raw.identifier
    \/ x.linear_id # None /\ x.linear_id = last.raw.id

\* x carries what was fetched
IsFetchedVersion(x) ==
    /\ x.id = last.raw.identifier
    /\ x.linear_id = last.raw.id
    /\ x.title = last.raw.title
    /\ x.points = IF last.raw.estimate = NoEstimate THEN 0 ELSE last.raw.estimate

\* C33: applying a fetched issue replaces in place the in-memory issue that
\* matches it by key or by remote identifier, leaving the number of issues
\* as it was, and appends it only when none matches; afterwards memory and
\* the Local Store each hold the fetched version and no other version of
\* that issue, so that a reload from the store yields the issue set that is
\* in memory.
C33_ApplyReplacesInPlace ==
    Applied =>
       /\ IF \E k \in DOMAIN last.pre_issues : VersionOfFetched(last.pre_issues[k])
          THEN /\ Len(issues) = Len(last.pre_issues)
               /\ \E k \in DOMAIN issues :
                     /\ VersionOfFetched(last.pre_issues[k])
                     /\ IsFetchedVersion(issues[k])
                     /\ \A j \in DOMAIN issues \ {k} : issues[j] = last.pre_issues[j]
          ELSE /\ Len(issues) = Len(last.pre_issues) + 1
               /\ SubSeq(issues, 1, Len(last.pre_issues)) = last.pre_issues
               /\ IsFetchedVersion(issues[Len(issues)])
       /\ \A k \in DOMAIN issues : VersionOfFetched(issues[k]) => IsFetchedVersion(issues[k])
       /\ Cardinality({k \in DOMAIN issues : VersionOfFetched(issues[k])}) = 1
       /\ \A k \in DOMAIN db_issues :
             VersionOfFetched(db_issues[k]) => IsFetchedVersion(db_issues[k])
       /\ Cardinality({k \in DOMAIN db_issues : VersionOfFetched(db_issues[k])}) = 1
       /\ {db_issues[k].id : k \in DOMAIN db_issues} = {issues[k].id : k \in DOMAIN issues}

----------------------------------------------------------------------------
(* Two mutations of one issue that run as concurrent workers               *)
(* (app.py:675-678, views/issue_detail.py:69-75).  A coroutine runs from   *)
(* one await to the next without interruption; at an await (the remote     *)
(* update, the store write) the other coroutine may run.  Both hold the    *)
(* same Issue object, the one at index idx of the in-memory issues.        *)

MaxRaces == 1

RaceStatuses == <<"Todo", "In Progress", "Done">>

\* a coroutine that has not been started
NotStarted == [kind |-> "none", pc |-> "idle"]

\* a mutation at an await, or returned (pc = "done") with result ok
Mutation(kind, pc, idx, previous_values, ok, remote_failed) ==
    [kind |-> kind, pc |-> pc, idx |-> idx, previous_values |-> previous_values,
     ok |-> ok, remote_failed |-> remote_failed]

\* cycle_issue_status, cycle_issue_assignee or cycle_issue_points from the
\* call to the await of the remote update (data.py:260-286, 295-315,
\* 328-343): the optimistic change is made and the previous values are kept
mutation_begin(w, kind, issue_id) ==
    With(get_issue_by_id(w, issue_id), LAMBDA idx :
    With(w.issues[idx], LAMBDA issue :
       CASE kind = "points" ->
              [w |-> [w EXCEPT !.issues[idx].points =
                         next_points_of(issue.points, 1, PointsMaxArg)],
               t |-> Mutation(kind, "remote", idx, [points |-> issue.points], FALSE, FALSE)]
         [] kind = "assignee" ->
              [w |-> [w EXCEPT !.issues[idx].assignee =
                         next_assignee_in(<<NoUser>> \o w.users, issue)],
               t |-> Mutation(kind, "remote", idx, [assignee |-> issue.assignee],
                              FALSE, FALSE)]
         [] kind = "status" ->
              With(RaceStatuses[next_index(RaceStatuses, issue.status)], LAMBDA next_status :
              With(_resolve_state_id_for_status(w.linear_status_mappings,
                       w.workflow_states_by_team,
                       [issue EXCEPT !.status = next_status], next_status),
                   LAMBDA resolved :
                 IF resolved.id = None
                 THEN [w |-> w,
                       t |-> Mutation(kind, "done", idx,
                                      [status |-> issue.status, state_id |-> issue.state_id],
                                      FALSE, FALSE)]
                 ELSE [w |-> [w EXCEPT !.issues[idx].status = next_status,
                                       !.issues[idx].state_id = resolved.id],
                       t |-> Mutation(kind, "remote", idx,
                                      [status |-> issue.status, state_id |-> issue.state_id],
                                      FALSE, FALSE)]))))

\* _write_through_issue_update when the remote update has answered
\* (data.py:355-366): a failure of a kind that is not reconciled restores
\* the previous values and returns, a success goes on to the store write
mutation_remote_answered(w, t, remote) ==
    IF remote.kind # "success"
    THEN [w |-> _restore_issue_fields(w, t.idx, t.previous_values),
          t |-> [t EXCEPT !.pc = "done", !.ok = FALSE, !.remote_failed = TRUE]]
    ELSE [w |-> w, t |-> [t EXCEPT !.pc = "store"]]

\* the store write of _persist_issue_with_rollback runs (data.py:371-377,
\* database.py:103-124): the row is built from the Issue object as it is now
mutation_store_answered(w, t, save) ==
    With(_persist_issue_with_rollback(w, t.idx, t.previous_values, save), LAMBDA p :
       [w |-> p.w, t |-> [t EXCEPT !.pc = "done", !.ok = p.ok]])

RaceTasks == IF last.op = "race" THEN last.tasks ELSE [i \in 1..2 |-> NotStarted]

\* the engine becomes r.w and coroutine i becomes r.t
RaceStep(i, r) ==
    /\ Becomes(r.w)
    /\ last' = [op |-> "race", tasks |-> [RaceTasks EXCEPT ![i] = r.t]]

InitRace ==
    /\ InitWith(StoredUsers, StoredProjects, StoredIssues, StoredWorkflowStates)
    /\ linear_status_mappings = EmptyDict
    /\ api_key = TRUE
    /\ env_api_key = TRUE
    /\ faults_left = 0

\* a worker starts a mutation of issue X-1
RaceBegin ==
    /\ calls_made < MaxRaces
    /\ \E i \in 1..2, kind \in {"status", "assignee", "points"} :
          /\ RaceTasks[i].pc = "idle"
          /\ RaceStep(i, mutation_begin(World, kind, "X-1"))
    /\ UNCHANGED <<calls_made, faults_left>>

\* the remote update of a mutation returns or raises
RaceRemoteAnswers ==
    /\ \E i \in 1..2, remote \in {Success, Raise(OtherError("network"))} :
          /\ RaceTasks[i].pc = "remote"
          /\ RaceStep(i, mutation_remote_answered(World, RaceTasks[i], remote))
    /\ UNCHANGED <<calls_made, faults_left>>

\* the store write of a mutation commits or raises
RaceStoreAnswers ==
    /\ \E i \in 1..2, save \in {"ok", "disk I/O error"} :
          /\ RaceTasks[i].pc = "store"
          /\ RaceStep(i, mutation_store_answered(World, RaceTasks[i], save))
    /\ UNCHANGED <<calls_made, faults_left>>

\* both workers have returned and the next pair may start
RaceOver ==
    /\ last.op = "race"
    /\ \A i \in 1..2 : last.tasks[i].pc = "done"
    /\ last' = Idle
    /\ calls_made' = calls_made + 1
    /\ EngineUnchanged
    /\ UNCHANGED faults_left

NextRace ==
    \/ RaceBegin
    \/ RaceRemoteAnswers
    \/ RaceStoreAnswers
    \/ RaceOver

SpecRace == InitRace /\ [][NextRace]_vars

\* both mutations have returned: one failed at its remote update and was
\* rolled back, the other succeeded and persisted
OneFailedOnePersisted ==
    /\ last.op = "race"
    /\ \A i \in 1..2 : last.tasks[i].pc = "done"
    /\ \E i \in 1..2 :
          /\ last.tasks[i].remote_failed
          /\ last.tasks[3 - i].ok

\* C34: whatever the interleaving of two mutations of one issue at their
\* awaits, when one failed remotely and was rolled back and the other
\* succeeded and persisted, then once both have returned the store row of
\* the issue agrees with the in-memory issue on status, state id, assignee
\* and points.
C34_RaceLeavesStoreAndMemoryAgreeing ==
    OneFailedOnePersisted => Agree(IssueOf(World, "X-1"), RowOf(db_issues, "X-1"))

----------------------------------------------------------------------------
(* A mutation of an issue that runs concurrently with a sync.  The         *)
(* mutation holds the Issue object it found at its start; the reload of    *)
(* the sync (data.py:80) binds self.issues to a list of new objects, after *)
(* which the object that the mutation holds is no longer in memory.        *)

MaxReloadRaces == 1

\* no mutation, no sync
NobodyRuns ==
    [op |-> "reload_race",
     mutation |-> NotStarted,
     sync |-> [pc |-> "idle", raised |-> FALSE]]

Coroutines == IF last.op = "reload_race" THEN last ELSE NobodyRuns

\* the engine as the mutation t sees it: its Issue object at index 1
Isolated(w, t) == [w EXCEPT !.issues = <<t.obj>>]

\* the engine after a step r that the mutation t made on its own object:
\* the store as the step left it, the in-memory issues as they were
Rejoined(w, t, r) ==
    [w |-> [r.w EXCEPT !.issues = w.issues],
     t |-> [r.t EXCEPT !.obj = r.w.issues[1], !.idx = t.idx]]

\* a step of a mutation on the object it holds, in memory or not
held_remote_answered(w, t, remote) ==
    IF t.attached THEN mutation_remote_answered(w, t, remote)
    ELSE Rejoined(w, t, mutation_remote_answered(Isolated(w, t), [t EXCEPT !.idx = 1], remote))

held_store_answered(w, t, save) ==
    IF t.attached THEN mutation_store_answered(w, t, save)
    ELSE Rejoined(w, t, mutation_store_answered(Isolated(w, t), [t EXCEPT !.idx = 1], save))

\* the mutation t once self.issues is bound to the reloaded list: it keeps
\* the object that was at its index of the list before
Detached(w, t) ==
    IF t.pc \in {"remote", "store"} /\ t.attached
    THEN [t EXCEPT !.obj = w.issues[t.idx], !.attached = FALSE, !.reloaded_at = t.pc]
    ELSE t

InitReload ==
    /\ InitWith(StoredUsers, StoredProjects, StoredIssues, StoredWorkflowStates)
    /\ linear_status_mappings = EmptyDict
    /\ api_key = TRUE
    /\ env_api_key = TRUE
    /\ faults_left = 0

\* a worker starts a mutation of issue X-1 (views/issue_detail.py:69-75)
MutationBegins ==
    /\ calls_made < MaxReloadRaces
    /\ Coroutines.mutation.pc = "idle"
    /\ \E kind \in {"status", "assignee", "points"} :
         \E r \in {mutation_begin(World, kind, "X-1")} :
            /\ Becomes(r.w)
            /\ last' = [Coroutines EXCEPT !.mutation =
                           r.t @@ [obj |-> NoIssue, attached |-> TRUE, reloaded_at |-> "none",
                                   target |-> [f \in DOMAIN r.t.previous_values |->
                                                  r.w.issues[r.t.idx][f]]]]
    /\ UNCHANGED <<calls_made, faults_left>>

\* the remote update of the mutation returns or raises
MutationRemoteAnswers ==
    /\ Coroutines.mutation.pc = "remote"
    /\ \E remote \in {Success, Raise(OtherError("network"))} :
         \E r \in {held_remote_answered(World, last.mutation, remote)} :
            /\ Becomes(r.w)
            /\ last' = [last EXCEPT !.mutation = r.t]
    /\ UNCHANGED <<calls_made, faults_left>>

\* the store write of the mutation commits or raises
MutationStoreAnswers ==
    /\ Coroutines.mutation.pc = "store"
    /\ \E save \in {"ok", "disk I/O error"} :
         \E r \in {held_store_answered(World, last.mutation, save)} :
            /\ Becomes(r.w)
            /\ last' = [last EXCEPT !.mutation = r.t]
    /\ UNCHANGED <<calls_made, faults_left>>

\* a worker starts a sync (app.py:95)
SyncBegins ==
    /\ calls_made < MaxReloadRaces
    /\ Coroutines.sync.pc = "idle"
    /\ \E p \in {sync_begin(World, CleanSync)} :
          /\ Becomes(p.w)
          /\ last' = [Coroutines EXCEPT !.sync = [pc |-> p.pc, raised |-> p.raised]]
    /\ UNCHANGED <<calls_made, faults_left>>

\* the call that the sync awaits returns, and the sync runs to its next await
SyncProceeds ==
    /\ Coroutines.sync.pc \notin {"idle", "done"}
    /\ \E p \in {sync_resume(World, last.sync.pc, last.sync.raised, CleanSync)} :
          /\ Becomes(p.w)
          /\ last' = [last EXCEPT
                         !.sync = [pc |-> p.pc, raised |-> p.raised],
                         !.mutation = IF last.sync.pc = "db.get_issues"
                                      THEN Detached(World, @) ELSE @]
    /\ UNCHANGED <<calls_made, faults_left>>

\* both workers have returned
ReloadRaceOver ==
    /\ last.op = "reload_race"
    /\ last.mutation.pc = "done"
    /\ last.sync.pc = "done"
    /\ last' = Idle
    /\ calls_made' = calls_made + 1
    /\ EngineUnchanged
    /\ UNCHANGED faults_left

NextReload ==
    \/ MutationBegins
    \/ MutationRemoteAnswers
    \/ MutationStoreAnswers
    \/ SyncBegins
    \/ SyncProceeds
    \/ ReloadRaceOver

SpecReload == InitReload /\ [][NextReload]_vars

\* the sync reloaded the issues while the mutation awaited its remote
\* update, the mutation then succeeded, and both have returned
ReloadedDuringMutation ==
    /\ last.op = "reload_race"
    /\ last.mutation.pc = "done"
    /\ last.sync.pc = "done"
    /\ last.mutation.reloaded_at = "remote"
    /\ last.mutation.ok

\* x, an issue or a store row, carries the values the mutation set
CarriesTarget(x) ==
    \A f \in DOMAIN last.mutation.target :
       IF f = "assignee" THEN
          (IF "assignee" \in DOMAIN x THEN x.assignee.id ELSE x.assignee_id)
             = last.mutation.target[f].id
       ELSE x[f] = last.mutation.target[f]

\* C35: when a sync reloads while a mutation is suspended at its remote
\* call and the mutation then succeeds, then once both have returned the
\* in-memory issue with that id carries the mutated value and agrees with
\* the store row on the mutated field.
C35_MutationSurvivesReload ==
    ReloadedDuringMutation =>
       /\ CarriesTarget(IssueOf(World, "X-1"))
       /\ CarriesTarget(RowOf(db_issues, "X-1"))

----------------------------------------------------------------------------
(* Two invocations of sync_with_linear that overlap: one started by the    *)
(* user (app.py:95), one by the reconciliation of a failed mutation        *)
(* (data.py:479).  Both run on the same DataManager.                       *)

MaxOverlaps == 1

OverlapScripts == {CleanSync, SyncScript("linear.get_me", "rate limit", RemoteData, "none")}

\* data.py:535-543: the arguments of db.append_sync_history, evaluated when
\* _record_sync_history makes the call: the time, the result and the
\* summary are values, the diagnostics are the dict self.sync_diagnostics
\* is bound to (held), which database.py:205 serialises once the connection
\* is open
HistoryCall(w) ==
    [created_at |-> w.clock, result |-> w.last_sync_result,
     summary |-> _sync_status_summary_core(w),
     diagnostics |-> w.sync_diagnostics, held |-> TRUE]

NoHistoryCall ==
    [created_at |-> 0, result |-> "syncing", summary |-> <<>>,
     diagnostics |-> EmptyDict, held |-> FALSE]

NoSyncRuns ==
    [op |-> "overlap",
     syncs |-> [i \in 1..2 |-> [pc |-> "idle", raised |-> FALSE, script |-> CleanSync,
                                call |-> NoHistoryCall]]]

Invocations == IF last.op = "overlap" THEN last ELSE NoSyncRuns

InitOverlap ==
    /\ InitWith(StoredUsers, StoredProjects, StoredIssues, StoredWorkflowStates)
    /\ linear_status_mappings = EmptyDict
    /\ api_key = TRUE
    /\ env_api_key = TRUE
    /\ faults_left = 0

\* data.py:93: another invocation rebinds self.sync_diagnostics to a new
\* dict; a suspended append keeps the dict it was called with
Rebound(w, invocation) ==
    IF invocation.pc = "history.append" /\ invocation.call.held
    THEN [invocation EXCEPT !.call.held = FALSE,
                            !.call.diagnostics = w.sync_diagnostics]
    ELSE invocation

\* database.py:199-213: the row the suspended append inserts
Inserted(w, call) ==
    append_sync_history(w.db_sync_history, w.db_seq + 1, call.created_at,
        call.result, call.summary,
        IF call.held THEN w.sync_diagnostics ELSE call.diagnostics, MaxEntries)

\* sync_with_linear is invoked and runs to its first await
OverlapBegins ==
    /\ calls_made < MaxOverlaps
    /\ \E i \in 1..2, s \in OverlapScripts :
          /\ Invocations.syncs[i].pc = "idle"
          /\ \E p \in {sync_begin(World, s)} :
                /\ Becomes(p.w)
                /\ last' = [Invocations EXCEPT
                               !.syncs = [j \in 1..2 |->
                                  IF j = i
                                  THEN [pc |-> p.pc, raised |-> p.raised, script |-> s,
                                        call |-> NoHistoryCall]
                                  ELSE Rebound(World, Invocations.syncs[j])]]
    /\ UNCHANGED <<calls_made, faults_left>>

\* the call that an invocation awaits returns or raises
OverlapProceeds ==
    /\ last.op = "overlap"
    /\ \E i \in 1..2 :
          /\ last.syncs[i].pc \notin {"idle", "done"}
          /\ \E p \in {sync_resume(World, last.syncs[i].pc, last.syncs[i].raised,
                                   last.syncs[i].script)} :
                /\ Becomes(IF last.syncs[i].pc = "history.append"
                              /\ last.syncs[i].script.hist # "append"
                           THEN [p.w EXCEPT !.db_sync_history =
                                    Inserted(World, last.syncs[i].call)]
                           ELSE p.w)
                /\ last' = [last EXCEPT
                               !.syncs[i].pc = p.pc,
                               !.syncs[i].raised = p.raised,
                               !.syncs[i].call =
                                  IF p.pc = "history.append" THEN HistoryCall(p.w) ELSE @]
    /\ UNCHANGED <<calls_made, faults_left>>

\* both invocations have returned
OverlapOver ==
    /\ last.op = "overlap"
    /\ \A i \in 1..2 : last.syncs[i].pc = "done"
    /\ last' = Idle
    /\ calls_made' = calls_made + 1
    /\ EngineUnchanged
    /\ UNCHANGED faults_left

NextOverlap ==
    \/ OverlapBegins
    \/ OverlapProceeds
    \/ OverlapOver

SpecOverlap == InitOverlap /\ [][NextOverlap]_vars

\* an invocation of sync_with_linear has started and not yet finished
SomeSyncRuns ==
    /\ last.op = "overlap"
    /\ \E i \in 1..2 : last.syncs[i].pc \notin {"idle", "done"}

\* C36: in every state in which at least one invocation of the sync has
\* started and not finished, two overlapping invocations included, the
\* in-progress flag is set and sync_status_summary() is "syncing".
C36_FlagSetWhileAnySyncRuns ==
    SomeSyncRuns => sync_in_progress /\ sync_status_summary(World) = <<"syncing">>

----------------------------------------------------------------------------
(* Properties of what a failed sync leaves in memory *)

SyncFailed == last.op = "sync" /\ last_sync_result = "failed"

\* C37: a sync that ends with result failed, at whichever step, leaves the
\* in-memory users, projects, issues and workflow states by team as they
\* were before it, and leaves the time of the last successful sync
\* unchanged.
C37_FailedSyncKeepsSnapshot ==
    SyncFailed =>
       /\ users = last.pre.users
       /\ projects = last.pre.projects
       /\ issues = last.pre.issues
       /\ workflow_states_by_team = last.pre.workflow_states_by_team
       /\ last_sync_at = last.pre.last_sync_at

----------------------------------------------------------------------------
(* Properties of the persisted sync-history entries *)

\* the diagnostics of a history entry hold a step whose outcome starts
\* with "failed:"
HasFailedStep(row) ==
    \E step \in DOMAIN row.diagnostics :
       /\ Len(row.diagnostics[step]) >= 1
       /\ row.diagnostics[step][1] = "failed: "

\* f"success u:{users} p:{projects} i:{issues} t:{teams}"
SuccessSummary(u, p, i, t) ==
    <<"success u:", Str(u), " p:", Str(p), " i:", Str(i), " t:", Str(t)>>

\* a summary of that form, whatever the counts
IsSuccessSummary(summary) ==
    /\ Len(summary) = 8
    /\ <<summary[1], summary[3], summary[5], summary[7]>> =
          <<"success u:", " p:", " i:", " t:">>
    /\ \A k \in {2, 4, 6, 8} : \E n \in 0..20 : summary[k] = Str(n)

\* C38: every persisted sync-history entry has result "success" or
\* "failed", never "syncing"; its result is "failed" exactly when its
\* diagnostics hold a step whose outcome starts with "failed:"; an entry
\* with result "success" has a summary of the form
\* "success u:<users> p:<projects> i:<issues> t:<teams>", and the counts of
\* the entry a successful sync appends are the sizes of the snapshot that
\* sync reloaded.
C38_HistoryEntriesWellFormed ==
    /\ \A k \in 1..Len(db_sync_history) :
          /\ db_sync_history[k].result \in {"success", "failed"}
          /\ db_sync_history[k].result = "failed" <=> HasFailedStep(db_sync_history[k])
          /\ db_sync_history[k].result = "success" =>
                IsSuccessSummary(db_sync_history[k].summary)
    /\ SyncSucceeded =>
          \A r \in NewHistoryRows :
             r.summary = SuccessSummary(Len(users), Len(projects), Len(issues),
                             Cardinality(DOMAIN workflow_states_by_team))

----------------------------------------------------------------------------
(* The frame of a mutation that did not fall back to a full sync *)

\* a mutation returned and its reconciliation, if any, started no sync
MutatedWithoutSync == IsMutation /\ last.syncs = <<>>

\* the mutation fetched the issue again and applied what it got
Refetched == last.get_issue_calls # <<>> /\ last.got = "found"

\* C39: a mutation on issue X that does not fall back to a full sync
\* changes nothing but X, and on a targeted refetch adds at most one user:
\* every other issue, the projects, the workflow states, the sync history
\* and the last-sync result, error, time and diagnostics are as before, in
\* memory and in the store, whatever the outcome of the mutation.
C39_MutationTouchesOnlyItsIssue ==
    MutatedWithoutSync =>
       /\ last.untouched.issues
       /\ last.untouched.rows
       /\ last.untouched.projects
       /\ last.untouched.workflow_states
       /\ last.untouched.history
       /\ last.untouched.last_sync
       /\ last.untouched.users
       /\ last.untouched.user_rows
       /\ ~Refetched => last.frame.users /\ last.frame.store_users

\* a failed mutation of X-1 refetched it, put the fetched issue with a new
\* assignee in memory and in the store, and started no sync
C39_Witness ==
    /\ MutatedWithoutSync
    /\ Refetched
    /\ last.replaced
    /\ ~last.ok
    /\ ~last.frame.users
    /\ ~last.frame.store_issues

====
